---- MODULE Spec2Model ----
(***************************************************************************)
(* Model of the Backend.AI client proxy (ai/backend/client/cli/proxy.py):  *)
(* the request dispatch of create_proxy_app, the streaming relay           *)
(* web_handler, and websocket_handler with the WebSocketProxy bridge (the  *)
(* upstream pump, the detached downstream pump and the queue-drain task).  *)
(*                                                                         *)
(* Tasks are asyncio tasks on one event loop: an action is the code a task *)
(* runs between two suspension points.  A pump that finds its socket's     *)
(* inbound buffer empty is suspended ("wait"); tasks created with          *)
(* ensure_future before that suspension run before the pump resumes.       *)
(***************************************************************************)
EXTENDS Integers, Sequences, FiniteSets, TLC

VARIABLES
    \* ---- the proxy application (create_proxy_app, startup_proxy,
    \* ---- cleanup_proxy); client_session is an index into sessions, 0
    \* ---- while the key is not set
    appState, client_session, sessions,
    \* ---- request dispatch (create_proxy_app), checked as a pure function
    rMethod, rPath, rHandler, rFwd,
    \* ---- the request in flight
    nReq, run502, handler, method, excAt, upErr, session,
    \* ---- web_handler
    wpc, upResp, upBody, chunk, downResp, prepared, readLog, writeLog, upHandle,
    webResp,
    \* ---- websocket_handler and WebSocketProxy
    hpc, wsResp, upc, dpc, drain, drainCancel, drainResult, dExc, raised, tasks,
    downClosed, upClosed, downIn, upIn, upstream_buffer,
    enq, upWritten, downWritten, upRecvd, dropped,
    nSent, nUpSent, clientGone, serverGone, forced,
    \* ---- session.py: a Session with its _SyncWorkerThread, and the thread
    \* ---- that uses it
    sess, work_queue, done_queue, wt, running, cpc, cret, ctx, pending,
    nCalls,
    \* ---- session.py: an AsyncSession and the task that uses it
    asess, apc, actx, apending,
    \* ---- sorna/request.py: a Request
    rq_data, rq_content, rq_headers, rq_last, nOps,
    \* ---- session.py: a second thread that calls execute() of the same
    \* ---- worker, and a call of _negotiate_api_version
    pc2, nego

appVars   == <<appState, client_session, sessions>>
routeVars == <<rMethod, rPath, rHandler, rFwd>>
reqVars   == <<nReq, run502, handler, method, excAt, upErr, session>>
webVars   == <<wpc, upResp, upBody, chunk, downResp, prepared, readLog,
               writeLog, upHandle, webResp>>
wsVars    == <<hpc, wsResp, upc, dpc, drain, drainCancel, drainResult,
               dExc, raised, tasks,
               downClosed, upClosed, downIn, upIn, upstream_buffer,
               enq, upWritten, downWritten, upRecvd, dropped,
               nSent, nUpSent, clientGone, serverGone, forced>>
sessVars  == <<sess, work_queue, done_queue, wt, running, cpc, cret, ctx,
               pending, nCalls>>
asessVars == <<asess, apc, actx, apending>>
rqstVars  == <<rq_data, rq_content, rq_headers, rq_last, nOps>>
moreVars  == <<pc2, nego>>
libVars   == <<sessVars, asessVars, rqstVars, moreVars>>
vars == <<appVars, routeVars, reqVars, webVars, wsVars, libVars>>

(***************************************************************************)
(* Bounds of the model.                                                    *)
(***************************************************************************)
MaxChunks   == 4    \* pieces an inbound path is assembled from
MaxRequests == 2    \* requests handled one after the other
MaxFrames   == 2    \* frames the downstream client sends in a session
MaxUpFrames == 1    \* frames the upstream server sends in a session
MaxBody     == 2    \* bytes of an upstream HTTP body
MaxCalls    == 2    \* API calls made through a Session inside its context
MaxOps      == 4    \* operations on a sorna Request after its construction
MaxDownFrames == 2  \* frames the upstream server sends to a silent client
MaxMajor    == 3    \* major numbers of the API versions negotiated

(***************************************************************************)
(* Strings are sequences of one-character strings.                         *)
(***************************************************************************)
Digits == {"1", "2"}

STREAM  == <<"/", "s", "t", "r", "e", "a", "m", "/">>
WSPROXY == <<"/", "w", "s", "p", "r", "o", "x", "y", "/">>

PathPieces ==
    { <<"/">>, <<"v">>, <<"1">>, <<"x">>,
      <<"v", "2", "/">>, <<"v", "1", "2", "/">>,
      <<"s", "t", "r", "e", "a", "m">>,
      <<"s", "t", "r", "e", "a", "m", "/">>,
      <<"w", "s", "p", "r", "o", "x", "y", "/">> }

RECURSIVE Flatten(_)
Flatten(ps) == IF ps = <<>> THEN <<>> ELSE Head(ps) \o Flatten(Tail(ps))

\* request.path of an aiohttp request that reached a route: it starts with "/"
PathsOfLen(n) == { Flatten(<<(<<"/">>)>> \o ps) : ps \in [1..n -> PathPieces] }
Paths == UNION { PathsOfLen(n) : n \in 0..(MaxChunks - 1) }

Methods == {"GET", "POST", "HEAD"}

StartsWith(s, p) == Len(s) >= Len(p) /\ SubSeq(s, 1, Len(p)) = p

\* number of leading characters of s that are digits
RECURSIVE DigitRun(_)
DigitRun(s) ==
    IF s # <<>> /\ Head(s) \in Digits THEN 1 + DigitRun(Tail(s)) ELSE 0

\* length of the match of the regular expression ^/?v(\d+)/ at the start of
\* s, or 0 when it does not match
VersionMatchFrom(s, skip) ==
    LET t == SubSeq(s, skip + 1, Len(s))
        d == IF t # <<>> /\ Head(t) = "v" THEN DigitRun(Tail(t)) ELSE 0
    IN  IF d > 0 /\ Len(t) >= d + 2 /\ t[d + 2] = "/"
        THEN skip + d + 2 ELSE 0

VersionMatch(s) ==
    IF s # <<>> /\ Head(s) = "/" /\ VersionMatchFrom(s, 1) > 0
    THEN VersionMatchFrom(s, 1)
    ELSE VersionMatchFrom(s, 0)

\* the rewriting with the replacement string left empty
StripVersionNoSlash(p) ==
    LET m == VersionMatch(p)
    IN  IF m = 0 THEN p ELSE SubSeq(p, m + 1, Len(p))

\* re.sub(r'^/?v(\d+)/', '/', request.path)
StripVersion(p) ==
    LET m == VersionMatch(p)
    IN  IF m = 0 THEN p ELSE <<"/">> \o SubSeq(p, m + 1, Len(p))

\* the route table without the /wsproxy/ route
RouteNoWsproxy(m, p) ==
    IF m = "GET" /\ StartsWith(p, STREAM) THEN "websocket_handler"
    ELSE "web_handler"

\* the route table of create_proxy_app, resolved in registration order
Route(m, p) ==
    IF m = "GET" /\ StartsWith(p, STREAM) THEN "websocket_handler"
    ELSE IF m = "GET" /\ StartsWith(p, WSPROXY) THEN "websocket_handler"
    ELSE "web_handler"

(***************************************************************************)
(* Exceptions and responses.                                               *)
(***************************************************************************)
NoExc == [kind |-> "none"]
NoResp == [kind |-> "none"]

\* a JSON text is its value and its spacing; json.dumps writes ", " and ": "
JsonTexts == { [value |-> "no such resource", style |-> st] :
                   st \in {"compact", "spaced"} }
JsonLoads(t) == t.value
JsonDumps(v) == [value |-> v, style |-> "spaced"]

\* what Request.fetch() / Request.connect_websocket() can raise
ApiErrors == { [kind |-> "BackendAPIError", status |-> 404,
                reason |-> "Not Found", data |-> JsonLoads(t)] : t \in JsonTexts }
ClientError == [kind |-> "BackendClientError"]
Cancelled == [kind |-> "CancelledError"]
OtherError == [kind |-> "Exception"]
ConnectErrors == ApiErrors \cup {ClientError, Cancelled, OtherError}
StreamErrors == {ClientError, Cancelled, OtherError}

\* the error answers of the upstream server: status, reason and body text
UpErrors ==
    { [status |-> 404, reason |-> "Not Found", body |-> t] : t \in JsonTexts }

\* BackendAPIError(status, reason, data) as fetch() raises it for an error
\* answer: data is the parsed body
ApiErrorOf(u) ==
    [kind |-> "BackendAPIError", status |-> u.status, reason |-> u.reason,
     data |-> JsonLoads(u.body)]

\* the upstream answers for which fetch() raises e
AnswersRaising(e) ==
    IF e.kind = "BackendAPIError"
    THEN { u \in UpErrors : ApiErrorOf(u) = e }
    ELSE {NoResp}

Inaccessible == "The proxy target server is inaccessible."
ShutDown == "The proxy is being shut down."
GoneWrong == "Something has gone wrong."

\* web.Response(body=..., status=..., reason=...): no header is set by the code
ErrorResponse(st, rs, b) ==
    [kind |-> "response", status |-> st, reason |-> rs, body |-> b,
     headers |-> <<>>]

\* the except clauses with BackendClientError left to the last one
WebErrorResponseNo502(e) ==
    IF e.kind = "BackendAPIError"
    THEN ErrorResponse(e.status, e.reason, JsonDumps(e.data))
    ELSE IF e.kind = "CancelledError"
    THEN ErrorResponse(503, "Service Unavailable", ShutDown)
    ELSE ErrorResponse(500, "Internal Server Error", GoneWrong)

\* the except clauses without the last one: the exception leaves the handler
WebErrorResponseNo500(e) ==
    IF e.kind = "BackendAPIError"
    THEN ErrorResponse(e.status, e.reason, JsonDumps(e.data))
    ELSE IF e.kind = "BackendClientError"
    THEN ErrorResponse(502, "Bad Gateway", Inaccessible)
    ELSE IF e.kind = "CancelledError"
    THEN ErrorResponse(503, "Service Unavailable", ShutDown)
    ELSE [kind |-> "raised", status |-> 0, reason |-> e.kind, body |-> "",
          headers |-> <<>>]

\* the except clauses of web_handler
WebErrorResponse(e) ==
    IF e.kind = "BackendAPIError"
    THEN ErrorResponse(e.status, e.reason, JsonDumps(e.data))
    ELSE IF e.kind = "BackendClientError"
    THEN ErrorResponse(502, "Bad Gateway", Inaccessible)
    ELSE IF e.kind = "CancelledError"
    THEN ErrorResponse(503, "Service Unavailable", ShutDown)
    ELSE ErrorResponse(500, "Internal Server Error", GoneWrong)

\* the except clauses without the one for CancelledError
WsErrorResponseNo503(e) ==
    IF e.kind = "BackendAPIError"
    THEN ErrorResponse(e.status, e.reason, JsonDumps(e.data))
    ELSE IF e.kind = "BackendClientError"
    THEN ErrorResponse(502, "Bad Gateway", Inaccessible)
    ELSE ErrorResponse(500, "Internal Server Error", GoneWrong)

\* the except clauses of websocket_handler
WsErrorResponse(e) ==
    IF e.kind = "BackendAPIError"
    THEN ErrorResponse(e.status, e.reason, JsonDumps(e.data))
    ELSE IF e.kind = "BackendClientError"
    THEN ErrorResponse(502, "Bad Gateway", Inaccessible)
    ELSE IF e.kind = "CancelledError"
    THEN ErrorResponse(503, "Service Unavailable", ShutDown)
    ELSE ErrorResponse(500, "Internal Server Error", GoneWrong)

(***************************************************************************)
(* Headers: a case-insensitive multi-map, a sequence of <<name, value>>.   *)
(***************************************************************************)
ACAO == "Access-Control-Allow-Origin"

\* the identity (lower-cased name) a CIMultiDict keys a header by
Identity(name) ==
    IF name \in {"Access-Control-Allow-Origin", "access-control-allow-origin"}
    THEN "access-control-allow-origin"
    ELSE IF name \in {"Set-Cookie"} THEN "set-cookie"
    ELSE IF name \in {"Content-Type"} THEN "content-type"
    ELSE name

HasKey(d, name) == \E i \in 1..Len(d) : Identity(d[i][1]) = Identity(name)
FirstIndex(d, name) ==
    CHOOSE i \in 1..Len(d) :
        /\ Identity(d[i][1]) = Identity(name)
        /\ \A j \in 1..(i - 1) : Identity(d[j][1]) # Identity(name)

RECURSIVE Without(_, _)
Without(d, name) ==
    IF d = <<>> THEN <<>>
    ELSE IF Identity(Head(d)[1]) = Identity(name) THEN Without(Tail(d), name)
    ELSE <<Head(d)>> \o Without(Tail(d), name)

RECURSIVE WithoutKeysOf(_, _)
WithoutKeysOf(d, other) ==
    IF d = <<>> THEN <<>>
    ELSE IF HasKey(other, Head(d)[1]) THEN WithoutKeysOf(Tail(d), other)
    ELSE <<Head(d)>> \o WithoutKeysOf(Tail(d), other)

\* CIMultiDict.update(other): the keys of other are overwritten, every item of
\* other is kept
MDUpdate(d, other) == WithoutKeysOf(d, other) \o other

\* an assignment that adds the item and keeps the ones of that key
MDSetAdd(d, name, value) == d \o <<(<<name, value>>)>>

\* CIMultiDict.__setitem__: the first item of that key is replaced in place,
\* its other items are dropped; a new key is appended
MDSet(d, name, value) ==
    IF HasKey(d, name)
    THEN LET i == FirstIndex(d, name)
         IN  SubSeq(d, 1, i - 1) \o <<(<<name, value>>)>>
                 \o Without(SubSeq(d, i + 1, Len(d)), name)
    ELSE d \o <<(<<name, value>>)>>

\* the header lists an upstream response is drawn from
UpHeaderLists ==
    { <<>>,
      << <<"Content-Type", "text/plain">> >>,
      << <<"Set-Cookie", "a">>, <<"Set-Cookie", "b">> >>,
      << <<"Access-Control-Allow-Origin", "*">> >>,
      << <<"Content-Type", "text/plain">>,
         <<"access-control-allow-origin", "https://example.com">> >> }

\* the responses for which fetch() returns a handle instead of raising
UpStatuses == { <<200, "OK">>, <<201, "Created">> }
UpResponses ==
    { [status |-> s[1], reason |-> s[2], headers |-> h] :
          s \in UpStatuses, h \in UpHeaderLists }

Bytes == {"a", "b"}
Bodies == UNION { [1..n -> Bytes] : n \in 0..MaxBody }

\* the size web_handler passes to up_resp.aread()
ReadSize == 8192

\* the downstream response without the copy of the upstream headers
DownResponseNoCopy(up) ==
    [kind |-> "stream", status |-> up.status, reason |-> up.reason,
     headers |-> MDSet(<<>>, ACAO, "*")]

\* lines 118-121 of web_handler: the downstream response built from up_resp
DownResponse(up) ==
    [kind |-> "stream", status |-> up.status, reason |-> up.reason,
     headers |-> MDSet(MDUpdate(<<>>, up.headers), ACAO, "*")]

(***************************************************************************)
(* session.py and sorna/request.py before anything is constructed.         *)
(***************************************************************************)
\* no session object yet
NoSession ==
    [closed |-> FALSE, http |-> "none", httpCloses |-> 0,
     api_version |-> "none"]

NoCoro == [op |-> "none"]
\* outside a with block; exc is the exception handed to __exit__
NoContext == [state |-> "out", exc |-> "none"]

SessIdle ==
    /\ sess = NoSession /\ work_queue = <<>> /\ done_queue = <<>>
    /\ wt = "none" /\ running = NoCoro
    /\ cpc = "new" /\ cret = "none" /\ ctx = NoContext /\ pending = "none"
    /\ nCalls = 0

AsessIdle ==
    /\ asess = NoSession /\ apc = "new" /\ actx = NoContext
    /\ apending = "none"

\* an attribute that is None or an item that is absent, and one that holds v
None == <<>>
Some(v) == <<v>>

RqstIdle ==
    /\ rq_data = <<>> /\ rq_content = None /\ rq_headers = None
    /\ rq_last = [op |-> "none"] /\ nOps = 0

\* no negotiation has been made
NoNegotiation == [state |-> "none"]

MoreIdle == pc2 = "idle" /\ nego = NoNegotiation

LibIdle == SessIdle /\ AsessIdle /\ RqstIdle /\ MoreIdle

\* the coroutines of the bridge that were started, by name
NoTasks == [upstream |-> 0, downstream |-> 0, drain |-> 0]

\* an ensure_future that starts its coroutine twice
SpawnTwice(t, name) == [t EXCEPT ![name] = @ + 2]

\* asyncio.ensure_future(coro), and await coro for the upstream pump: one
\* more coroutine of that name runs
Spawn(t, name) == [t EXCEPT ![name] = @ + 1]

(***************************************************************************)
(* Initial state: the proxy application is up, no request is in flight.    *)
(***************************************************************************)
RouteIdle ==
    /\ rMethod = "GET" /\ rPath = <<"/">> /\ rHandler = "none" /\ rFwd = <<>>

ReqIdle ==
    /\ handler = "none" /\ method = "none" /\ excAt = NoExc
    /\ upErr = NoResp /\ session = 0

WebIdle ==
    /\ wpc = "idle" /\ upResp = NoResp /\ upBody = <<>> /\ chunk = <<>>
    /\ downResp = NoResp /\ prepared = FALSE /\ readLog = <<>>
    /\ writeLog = <<>> /\ upHandle = "none" /\ webResp = NoResp

WsIdle ==
    /\ hpc = "idle" /\ wsResp = NoResp
    /\ upc = "none" /\ dpc = "none" /\ drain = "none"
    /\ drainCancel = FALSE /\ drainResult = "none" /\ dExc = FALSE
    /\ raised = {} /\ tasks = NoTasks
    /\ downClosed = FALSE /\ upClosed = FALSE
    /\ downIn = <<>> /\ upIn = <<>> /\ upstream_buffer = <<>>
    /\ enq = <<>> /\ upWritten = <<>> /\ downWritten = <<>>
    /\ upRecvd = <<>> /\ dropped = <<>>
    /\ nSent = 0 /\ nUpSent = 0
    /\ clientGone = FALSE /\ serverGone = FALSE /\ forced = FALSE

\* AsyncSession(): not closed, with an aiohttp session of its own
NewAsyncSession ==
    [closed |-> FALSE, http |-> "open", httpCloses |-> 0,
     api_version |-> "none"]

\* a close() without the test of _closed
AsyncSessionCloseAgain(s) ==
    [s EXCEPT !.closed = TRUE, !.http = "closed", !.httpCloses = @ + 1]

\* AsyncSession.close()
AsyncSessionClose(s) ==
    IF s.closed THEN s
    ELSE [s EXCEPT !.closed = TRUE, !.http = "closed",
                   !.httpCloses = @ + 1]

\* startup_proxy has run: one AsyncSession, kept in app['client_session']
AppUp ==
    /\ appState = "running" /\ sessions = <<NewAsyncSession>>
    /\ client_session = 1

Init ==
    /\ LibIdle
    /\ AppUp
    /\ RouteIdle
    /\ nReq = 0 /\ run502 = 0 /\ ReqIdle
    /\ WebIdle
    /\ WsIdle

(***************************************************************************)
(* Request dispatch.                                                       *)
(***************************************************************************)
SamplePaths ==
    { STREAM \o <<"x">>, WSPROXY \o <<"x">>, <<"/", "v", "1", "/", "x">>,
      <<"/", "x">> }

\* session = request.app['client_session'], the first line of both handlers
HandlerSession(app_session) == app_session

\* aiohttp resolves the request and starts the handler the router names; the
\* handler takes the session of the application
RequestArrives(m, p) ==
    /\ appState = "running"
    /\ handler = "none"
    /\ nReq < MaxRequests
    /\ nReq' = nReq + 1
    /\ handler' = Route(m, p)
    /\ method' = m
    /\ session' = HandlerSession(client_session)
    /\ IF Route(m, p) = "websocket_handler"
       THEN hpc' = "connect" /\ wpc' = wpc
       ELSE wpc' = "fetch" /\ hpc' = hpc
    /\ UNCHANGED <<libVars, appVars, routeVars, run502, excAt, upErr>>
    /\ UNCHANGED <<upResp, upBody, chunk, downResp, prepared, readLog,
                   writeLog, upHandle, webResp>>
    /\ UNCHANGED <<wsResp, upc, dpc, drain, drainCancel, drainResult,
                   dExc, raised, tasks,
                   downClosed, upClosed, downIn, upIn, upstream_buffer,
                   enq, upWritten, downWritten, upRecvd,
                   dropped, nSent, nUpSent, clientGone, serverGone, forced>>

(***************************************************************************)
(* web_handler.                                                            *)
(***************************************************************************)
\* async with api_rqst.fetch() as up_resp: the handle is acquired, the
\* downstream response is built (lines 118-121) and prepare() is awaited
WebFetchOk(resp, body) ==
    /\ wpc = "fetch"
    /\ upResp' = resp
    /\ upBody' = body
    /\ upHandle' = "open"
    /\ downResp' = DownResponse(resp)
    /\ wpc' = "prepare"
    /\ UNCHANGED <<chunk, prepared, readLog, writeLog, webResp>>
    /\ UNCHANGED <<libVars, appVars, routeVars, reqVars, wsVars>>

\* fetch() raises: no handle was acquired, an except clause answers
WebFetchRaise(e) ==
    /\ wpc = "fetch"
    /\ excAt' = [kind |-> e.kind, stage |-> "fetch"]
    /\ upErr' \in AnswersRaising(e)
    /\ webResp' = WebErrorResponse(e)
    /\ wpc' = "done"
    /\ UNCHANGED <<upResp, upBody, chunk, downResp, prepared, readLog,
                   writeLog, upHandle>>
    /\ UNCHANGED <<libVars, appVars, routeVars, nReq, run502, handler,
                   method,
                   session, wsVars>>

\* await down_resp.prepare(request) returns: status line and headers are sent
WebPrepare ==
    /\ wpc = "prepare"
    /\ prepared' = TRUE
    /\ wpc' = "read"
    /\ UNCHANGED <<upResp, upBody, chunk, downResp, readLog, writeLog,
                   upHandle, webResp>>
    /\ UNCHANGED <<libVars, appVars, routeVars, reqVars, wsVars>>

Min(a, b) == IF a < b THEN a ELSE b

\* leaving the block of api_rqst.fetch() releases the upstream response
FetchContextExit(h) == "released"

\* a read loop that writes the empty chunk too and reads on
WebReadNoSentinel(n) ==
    /\ wpc = "read"
    /\ n \in 0..Min(ReadSize, Len(upBody))
    /\ chunk' = SubSeq(upBody, 1, n)
    /\ upBody' = SubSeq(upBody, n + 1, Len(upBody))
    /\ readLog' = readLog \o SubSeq(upBody, 1, n)
    /\ wpc' = "write"
    /\ UNCHANGED <<upHandle, webResp>>
    /\ UNCHANGED <<upResp, downResp, prepared, writeLog>>
    /\ UNCHANGED <<libVars, appVars, routeVars, reqVars, wsVars>>

\* chunk = await up_resp.aread(8192): any non-empty piece of at most 8192
\* bytes of what is left, or the empty chunk at the end of the body, which
\* ends the loop: the handler returns down_resp and the handle is released
WebRead(n) ==
    /\ wpc = "read"
    /\ IF upBody = <<>>
       THEN /\ n = 0
            /\ chunk' = <<>>
            /\ webResp' = downResp
            /\ upHandle' = FetchContextExit(upHandle)
            /\ wpc' = "done"
            /\ UNCHANGED <<upBody, readLog>>
       ELSE /\ n \in 1..Min(ReadSize, Len(upBody))
            /\ chunk' = SubSeq(upBody, 1, n)
            /\ upBody' = SubSeq(upBody, n + 1, Len(upBody))
            /\ readLog' = readLog \o SubSeq(upBody, 1, n)
            /\ wpc' = "write"
            /\ UNCHANGED <<upHandle, webResp>>
    /\ UNCHANGED <<upResp, downResp, prepared, writeLog>>
    /\ UNCHANGED <<libVars, appVars, routeVars, reqVars, wsVars>>

\* a write that loses the chunk
WebWriteLost ==
    /\ wpc = "write"
    /\ writeLog' = writeLog
    /\ wpc' = "read"
    /\ UNCHANGED <<upResp, upBody, chunk, downResp, prepared, readLog,
                   upHandle, webResp>>
    /\ UNCHANGED <<libVars, appVars, routeVars, reqVars, wsVars>>

\* await down_resp.write(chunk) returns
WebWrite ==
    /\ wpc = "write"
    /\ writeLog' = writeLog \o chunk
    /\ wpc' = "read"
    /\ UNCHANGED <<upResp, upBody, chunk, downResp, prepared, readLog,
                   upHandle, webResp>>
    /\ UNCHANGED <<libVars, appVars, routeVars, reqVars, wsVars>>

\* the exceptions an await inside the async with block can end with
RaisedAt(pc) ==
    IF pc = "read" THEN {ClientError, Cancelled, OtherError}
    ELSE IF pc \in {"prepare", "write"} THEN {Cancelled, OtherError}
    ELSE {}

\* an except clause that answers with the handle still held
WebRaiseLeak(e) ==
    /\ e \in RaisedAt(wpc)
    /\ excAt' = [kind |-> e.kind, stage |-> wpc]
    /\ webResp' = WebErrorResponse(e)
    /\ upHandle' = upHandle
    /\ wpc' = "done"
    /\ UNCHANGED <<upResp, upBody, chunk, downResp, prepared, readLog,
                   writeLog>>
    /\ UNCHANGED <<libVars, appVars, routeVars, nReq, run502, handler,
                   method,
                   upErr, session, wsVars>>

\* an await inside the block raises: the block is left, which releases the
\* handle, and an except clause answers
WebRaise(e) ==
    /\ e \in RaisedAt(wpc)
    /\ excAt' = [kind |-> e.kind, stage |-> wpc]
    /\ webResp' = WebErrorResponse(e)
    /\ upHandle' = FetchContextExit(upHandle)
    /\ wpc' = "done"
    /\ UNCHANGED <<upResp, upBody, chunk, downResp, prepared, readLog,
                   writeLog>>
    /\ UNCHANGED <<libVars, appVars, routeVars, nReq, run502, handler,
                   method,
                   upErr, session, wsVars>>

(***************************************************************************)
(* websocket_handler and the WebSocketProxy bridge.                        *)
(***************************************************************************)
FrameTypes == {"TEXT", "BINARY"}
EndTypes == {"CLOSE", "ERROR"}

\* where a pump stands when it reaches the receive of its async for: with
\* nothing buffered and the socket open, receive() suspends it
RecvState(buf, closed) == IF buf = <<>> /\ ~closed THEN "wait" ELSE "recv"

\* leaving the block of api_rqst.connect_websocket() releases the upstream
\* socket: up_conn.closed afterwards
WebSocketContextExit(closed) == TRUE

\* aiohttp answers a received close frame by closing the socket (autoclose)
AutoClose(closed) == TRUE

\* the upstream write the drain task picks for a queued frame
UpWrite(data, tp) ==
    IF tp = "BINARY" THEN [data |-> data, via |-> "send_bytes"]
    ELSE [data |-> data, via |-> "send_str"]

\* a downstream pump that writes every frame as text
DownWriteAsText(msg) == [data |-> msg.data, via |-> "send_str"]

\* the downstream write the downstream pump picks for an upstream frame
DownWrite(msg) ==
    IF msg.type = "TEXT" THEN [data |-> msg.data, via |-> "send_str"]
    ELSE [data |-> msg.data, via |-> "send_bytes"]

\* a queue that hands out its newest item
QueueGetNewest(q) == q[Len(q)]

\* the item consume_upstream_buffer takes from the queue
QueueGet(q) == Head(q)
QueueRest(q) == Tail(q)
\* the queue after WebSocketProxy.send put an item
QueuePut(q, item) == Append(q, item)

wsEnvVars == <<nSent, nUpSent, clientGone, serverGone>>

\* api_rqst.connect_websocket() returned the upstream socket
WsConnectOk ==
    /\ hpc = "connect"
    /\ hpc' = "prepare"
    /\ UNCHANGED <<wsResp, upc, dpc, drain, drainCancel, drainResult,
                   dExc, raised, tasks,
                   downClosed, upClosed, downIn, upIn, upstream_buffer, enq,
                   upWritten, downWritten, upRecvd, dropped, wsEnvVars, forced>>
    /\ UNCHANGED <<libVars, appVars, routeVars, reqVars, webVars>>

\* connect_websocket() raises: an except clause answers
WsConnectRaise(e) ==
    /\ hpc = "connect"
    /\ excAt' = [kind |-> e.kind, stage |-> "connect"]
    /\ upErr' \in AnswersRaising(e)
    /\ wsResp' = WsErrorResponse(e)
    /\ hpc' = "done"
    /\ UNCHANGED <<upc, dpc, drain, drainCancel, drainResult, dExc, raised,
                   tasks,
                   downClosed, upClosed, downIn, upIn, upstream_buffer, enq,
                   upWritten, downWritten, upRecvd, dropped, wsEnvVars, forced>>
    /\ UNCHANGED <<libVars, appVars, routeVars, nReq, run502, handler,
                   method,
                   session, webVars>>

\* await down_conn.prepare(request) returns; proxy() schedules the
\* downstream pump and runs the upstream pump up to its first receive
WsPrepare ==
    /\ hpc = "prepare"
    /\ hpc' = "proxy"
    /\ dpc' = "scheduled"
    /\ upc' = RecvState(downIn, downClosed)
    /\ tasks' = Spawn(Spawn(tasks, "upstream"), "downstream")
    /\ UNCHANGED <<wsResp, drain, drainCancel, drainResult, dExc, raised,
                   downClosed, upClosed, downIn, upIn, upstream_buffer, enq,
                   upWritten, downWritten, upRecvd, dropped, wsEnvVars, forced>>
    /\ UNCHANGED <<libVars, appVars, routeVars, reqVars, webVars>>

\* prepare() raises inside the block: the upstream socket is released
WsPrepareRaise(e) ==
    /\ hpc = "prepare"
    /\ e \in {Cancelled, OtherError}
    /\ excAt' = [kind |-> e.kind, stage |-> "prepare"]
    /\ wsResp' = WsErrorResponse(e)
    /\ upClosed' = WebSocketContextExit(upClosed)
    /\ hpc' = "done"
    /\ UNCHANGED <<upc, dpc, drain, drainCancel, drainResult, dExc, raised,
                   tasks,
                   downClosed, downIn, upIn, upstream_buffer, enq,
                   upWritten, downWritten, upRecvd, dropped, wsEnvVars, forced>>
    /\ UNCHANGED <<libVars, appVars, routeVars, nReq, run502, handler,
                   method,
                   upErr, session, webVars>>

\* an upstream pump that has to wait for the upstream write in progress
UpstreamMayRunUnbuffered ==
    /\ upc = "recv" \/ (upc = "wait" /\ dpc # "scheduled")
    /\ drain # "send"

\* a pump suspended in receive() resumes only after the tasks that were
\* scheduled before it suspended have run
UpstreamMayRun == upc = "recv" \/ (upc = "wait" /\ dpc # "scheduled")
DownstreamMayRun == dpc = "recv" \/ (dpc = "wait" /\ drain # "new")

\* a finalizer that leaves the downstream socket as it is
CloseDownstreamSkipped == downClosed' = downClosed /\ upc' = "done"

\* a close_downstream that calls close() whatever down_conn.closed says
CloseDownstreamAlways(closed) == downClosed' = TRUE /\ upc' = "closing"

\* close_downstream, entered from the finally of upstream() with
\* down_conn.closed = closed
CloseDownstreamOn(closed) ==
    IF ~closed
    THEN downClosed' = TRUE /\ upc' = "closing"
    ELSE downClosed' = closed /\ upc' = "done"

CloseDownstream == CloseDownstreamOn(downClosed)

\* upstream(): one iteration of async for msg in self.down_conn
UpstreamRecv ==
    /\ hpc = "proxy"
    /\ UpstreamMayRun
    /\ downIn # <<>>
    /\ LET msg == Head(downIn) IN
       /\ downIn' = Tail(downIn)
       /\ IF msg.type \in FrameTypes
          THEN /\ upstream_buffer' =
                      QueuePut(upstream_buffer, [data |-> msg.data, tp |-> msg.type])
               /\ enq' = Append(enq, [data |-> msg.data, tp |-> msg.type])
               /\ upc' = RecvState(Tail(downIn), downClosed)
               /\ UNCHANGED downClosed
          ELSE IF msg.type = "ERROR"
          THEN /\ CloseDownstream
               /\ UNCHANGED <<upstream_buffer, enq>>
          ELSE \* a close frame ends the iteration, the socket was autoclosed
               /\ CloseDownstreamOn(AutoClose(downClosed))
               /\ UNCHANGED <<upstream_buffer, enq>>
    /\ UNCHANGED <<hpc, wsResp, dpc, drain, drainCancel, drainResult,
                   dExc, raised, tasks,
                   upClosed, upIn, upWritten, downWritten, upRecvd, dropped,
                   wsEnvVars, forced>>
    /\ UNCHANGED <<libVars, appVars, routeVars, reqVars, webVars>>

\* the handler task is cancelled while upstream() awaits a frame (the client
\* dropped the connection): except CancelledError: pass, then the finally
UpstreamCancel ==
    /\ hpc = "proxy"
    /\ UpstreamMayRun
    /\ ~forced
    /\ forced' = TRUE
    /\ clientGone' = TRUE
    /\ CloseDownstream
    /\ UNCHANGED <<hpc, wsResp, dpc, drain, drainCancel, drainResult,
                   dExc, raised, tasks,
                   upClosed, downIn, upIn, upstream_buffer, enq, upWritten,
                   downWritten, upRecvd, dropped, nSent, nUpSent, serverGone>>
    /\ UNCHANGED <<libVars, appVars, routeVars, reqVars, webVars>>

\* await self.down_conn.close() returns; upstream() and proxy() return
UpstreamCloseDone ==
    /\ hpc = "proxy"
    /\ upc = "closing"
    /\ upc' = "done"
    /\ UNCHANGED <<hpc, wsResp, dpc, drain, drainCancel, drainResult,
                   dExc, raised, tasks,
                   downClosed, upClosed, downIn, upIn, upstream_buffer, enq,
                   upWritten, downWritten, upRecvd, dropped, wsEnvVars, forced>>
    /\ UNCHANGED <<libVars, appVars, routeVars, reqVars, webVars>>

\* the handler task is cancelled while the finally of upstream() awaits
\* down_conn.close(): CancelledError leaves proxy(), the block is left and
\* the except clause of websocket_handler answers
UpstreamCancelInClose ==
    /\ hpc = "proxy"
    /\ upc = "closing"
    /\ ~forced
    /\ forced' = TRUE
    /\ clientGone' = TRUE
    /\ upc' = "done"
    /\ excAt' = [kind |-> "CancelledError", stage |-> "proxy"]
    /\ wsResp' = WsErrorResponse(Cancelled)
    /\ upClosed' = WebSocketContextExit(upClosed)
    /\ hpc' = "done"
    /\ UNCHANGED <<dpc, drain, drainCancel, drainResult, dExc, raised, tasks,
                   downClosed, downIn, upIn, upstream_buffer, enq, upWritten,
                   downWritten, upRecvd, dropped, nSent, nUpSent, serverGone>>
    /\ UNCHANGED <<libVars, appVars, routeVars, nReq, run502, handler,
                   method,
                   upErr, session, webVars>>

\* upstream(): the receive of the downstream socket or the handling of a
\* message raises an exception that is not CancelledError.  upstream() has
\* no except clause for it: the finally runs with the exception in flight
UpstreamRaise ==
    /\ hpc = "proxy"
    /\ UpstreamMayRun
    /\ "upstream" \notin raised
    /\ raised' = raised \cup {"upstream"}
    /\ CloseDownstream
    /\ UNCHANGED <<tasks, hpc, wsResp, dpc, drain, drainCancel, drainResult,
                   dExc,
                   upClosed, downIn, upIn, upstream_buffer, enq, upWritten,
                   downWritten, upRecvd, dropped, wsEnvVars, forced>>
    /\ UNCHANGED <<libVars, appVars, routeVars, reqVars, webVars>>

\* the finally of upstream() is over and the exception leaves upstream(),
\* proxy() and the connect_websocket block: except Exception answers
WsProxyRaised ==
    /\ hpc = "proxy"
    /\ upc = "done"
    /\ "upstream" \in raised
    /\ excAt' = [kind |-> OtherError.kind, stage |-> "proxy"]
    /\ wsResp' = WsErrorResponse(OtherError)
    /\ upClosed' = WebSocketContextExit(upClosed)
    /\ hpc' = "done"
    /\ UNCHANGED <<upc, dpc, drain, drainCancel, drainResult, dExc, raised,
                   tasks,
                   downClosed, downIn, upIn, upstream_buffer, enq, upWritten,
                   downWritten, upRecvd, dropped, wsEnvVars, forced>>
    /\ UNCHANGED <<libVars, appVars, routeVars, nReq, run502, handler,
                   method, upErr, session, webVars>>

\* a proxy() that returns while the upstream pump still runs
WsReturnEarly ==
    /\ hpc = "proxy"
    /\ upc # "none"
    /\ "upstream" \notin raised
    /\ wsResp' = [kind |-> "websocket", status |-> 101]
    /\ upClosed' = WebSocketContextExit(upClosed)
    /\ hpc' = "done"
    /\ UNCHANGED <<upc, dpc, drain, drainCancel, drainResult, dExc, raised,
                   tasks,
                   downClosed, downIn, upIn, upstream_buffer, enq, upWritten,
                   downWritten, upRecvd, dropped, wsEnvVars, forced>>
    /\ UNCHANGED <<libVars, appVars, routeVars, reqVars, webVars>>

\* proxy() returned: return down_conn, leaving the connect_websocket block
WsReturn ==
    /\ hpc = "proxy"
    /\ upc = "done"
    /\ "upstream" \notin raised
    /\ wsResp' = [kind |-> "websocket", status |-> 101]
    /\ upClosed' = WebSocketContextExit(upClosed)
    /\ hpc' = "done"
    /\ UNCHANGED <<upc, dpc, drain, drainCancel, drainResult, dExc, raised,
                   tasks,
                   downClosed, downIn, upIn, upstream_buffer, enq, upWritten,
                   downWritten, upRecvd, dropped, wsEnvVars, forced>>
    /\ UNCHANGED <<libVars, appVars, routeVars, reqVars, webVars>>

\* downstream() starts: the queue-drain task is scheduled, then the pump
\* runs up to its first receive
DownstreamStart ==
    /\ dpc = "scheduled"
    /\ drain' = "new"
    /\ dpc' = RecvState(upIn, upClosed)
    /\ tasks' = Spawn(tasks, "drain")
    /\ UNCHANGED <<hpc, wsResp, upc, drainCancel, drainResult, dExc, raised,
                   downClosed, upClosed, downIn, upIn, upstream_buffer, enq,
                   upWritten, downWritten, upRecvd, dropped, wsEnvVars, forced>>
    /\ UNCHANGED <<libVars, appVars, routeVars, reqVars, webVars>>

\* a close_upstream that closes the socket without a look at the drain task
CloseUpstreamNoJoin(closed) ==
    IF ~closed
    THEN drainCancel' = drainCancel /\ dpc' = "closing" /\ upClosed' = TRUE
    ELSE drainCancel' = drainCancel /\ dpc' = "done" /\ upClosed' = closed

\* close_upstream, entered from the finally of downstream(): the drain task
\* is cancelled and awaited when it is not done, else the socket is closed
CloseUpstream(closed) ==
    IF drain # "done"
    THEN drainCancel' = TRUE /\ dpc' = "join" /\ upClosed' = closed
    ELSE IF ~closed
    THEN drainCancel' = drainCancel /\ dpc' = "closing" /\ upClosed' = TRUE
    ELSE drainCancel' = drainCancel /\ dpc' = "done" /\ upClosed' = closed

\* downstream(): one iteration of async for msg in self.up_conn; a frame is
\* handed to send_str / send_bytes of the downstream socket
DownstreamRecv ==
    /\ DownstreamMayRun
    /\ upIn # <<>> \/ upClosed
    /\ IF upClosed
       THEN \* receive() of a closed socket ends the iteration
            /\ CloseUpstream(upClosed)
            /\ UNCHANGED <<upIn, upRecvd, downWritten>>
       ELSE LET msg == Head(upIn) IN
            /\ upIn' = Tail(upIn)
            /\ IF msg.type \in FrameTypes
               THEN /\ upRecvd' = Append(upRecvd, msg)
                    /\ \/ /\ ~downClosed
                          /\ downWritten' = Append(downWritten, DownWrite(msg))
                          /\ dpc' = "send"
                          /\ UNCHANGED <<upClosed, drainCancel>>
                       \/ \* the write is lost on a closed socket
                          /\ downClosed
                          /\ dpc' = "send"
                          /\ UNCHANGED <<downWritten, upClosed, drainCancel>>
                       \/ \* the write raises: except Exception, then finally
                          /\ downClosed \/ clientGone
                          /\ CloseUpstream(upClosed)
                          /\ UNCHANGED downWritten
               ELSE IF msg.type = "ERROR"
               THEN /\ CloseUpstream(upClosed)
                    /\ UNCHANGED <<upRecvd, downWritten>>
               ELSE \* a close frame: autoclose, the iteration ends
                    /\ CloseUpstream(AutoClose(upClosed))
                    /\ UNCHANGED <<upRecvd, downWritten>>
    /\ UNCHANGED <<hpc, wsResp, upc, drain, drainResult, dExc, raised, tasks,
                   downClosed,
                   downIn, upstream_buffer, enq, upWritten, dropped,
                   wsEnvVars, forced>>
    /\ UNCHANGED <<libVars, appVars, routeVars, reqVars, webVars>>

\* a downstream() without its except Exception clause
DownstreamRaiseEscapes ==
    /\ DownstreamMayRun
    /\ "downstream" \notin raised
    /\ raised' = raised \cup {"downstream"}
    /\ dExc' = TRUE
    /\ CloseUpstream(upClosed)
    /\ UNCHANGED <<tasks, hpc, wsResp, upc, drain, drainResult, downClosed,
                   downIn, upIn, upstream_buffer, enq, upWritten, downWritten,
                   upRecvd, dropped, wsEnvVars, forced>>
    /\ UNCHANGED <<libVars, appVars, routeVars, reqVars, webVars>>

\* downstream(): the receive of the upstream socket or a write to the
\* downstream socket raises an exception that is not CancelledError:
\* except Exception prints it, then the finally runs
DownstreamRaise ==
    /\ DownstreamMayRun
    /\ "downstream" \notin raised
    /\ raised' = raised \cup {"downstream"}
    /\ CloseUpstream(upClosed)
    /\ UNCHANGED <<tasks, hpc, wsResp, upc, drain, drainResult, dExc,
                   downClosed,
                   downIn, upIn, upstream_buffer, enq, upWritten, downWritten,
                   upRecvd, dropped, wsEnvVars, forced>>
    /\ UNCHANGED <<libVars, appVars, routeVars, reqVars, webVars>>

\* the await of send_str / send_bytes on the downstream socket returns
DownstreamSendDone ==
    /\ dpc = "send"
    /\ dpc' = RecvState(upIn, upClosed)
    /\ UNCHANGED <<hpc, wsResp, upc, drain, drainCancel, drainResult,
                   dExc, raised, tasks,
                   downClosed, upClosed, downIn, upIn, upstream_buffer, enq,
                   upWritten, downWritten, upRecvd, dropped, wsEnvVars, forced>>
    /\ UNCHANGED <<libVars, appVars, routeVars, reqVars, webVars>>

\* await self.upstream_buffer_task ends: a task cancelled before it ever ran
\* hands CancelledError to the awaiting finalizer, which leaves downstream()
DownstreamJoin ==
    /\ dpc = "join"
    /\ drain = "done"
    /\ IF drainResult = "cancelled"
       THEN dExc' = TRUE /\ dpc' = "done" /\ upClosed' = upClosed
       ELSE IF ~upClosed
       THEN dExc' = dExc /\ dpc' = "closing" /\ upClosed' = TRUE
       ELSE dExc' = dExc /\ dpc' = "done" /\ upClosed' = upClosed
    /\ UNCHANGED <<hpc, wsResp, upc, drain, drainCancel, drainResult, raised,
                   tasks,
                   downClosed, downIn, upIn, upstream_buffer, enq,
                   upWritten, downWritten, upRecvd, dropped, wsEnvVars, forced>>
    /\ UNCHANGED <<libVars, appVars, routeVars, reqVars, webVars>>

\* await self.up_conn.close() returns; downstream() returns
DownstreamCloseDone ==
    /\ dpc = "closing"
    /\ dpc' = "done"
    /\ UNCHANGED <<hpc, wsResp, upc, drain, drainCancel, drainResult,
                   dExc, raised, tasks,
                   downClosed, upClosed, downIn, upIn, upstream_buffer, enq,
                   upWritten, downWritten, upRecvd, dropped, wsEnvVars, forced>>
    /\ UNCHANGED <<libVars, appVars, routeVars, reqVars, webVars>>

\* consume_upstream_buffer starts with an empty queue: get() suspends it
DrainBlock ==
    /\ drain = "new"
    /\ ~drainCancel
    /\ upstream_buffer = <<>>
    /\ drain' = "get"
    /\ UNCHANGED <<hpc, wsResp, upc, dpc, drainCancel, drainResult, dExc,
                   raised, tasks,
                   downClosed, upClosed, downIn, upIn, upstream_buffer, enq,
                   upWritten, downWritten, upRecvd, dropped, wsEnvVars, forced>>
    /\ UNCHANGED <<libVars, appVars, routeVars, reqVars, webVars>>

\* a drain task that writes whatever the state of the socket
UpConnWritableAlways(closed) == TRUE

\* if not self.up_conn.closed: the test the drain task makes before a write
UpConnWritable(closed) == ~closed

\* consume_upstream_buffer: one iteration, from get() to the await of the
\* upstream write
DrainStep ==
    /\ drain \in {"new", "get"}
    /\ ~drainCancel
    /\ upstream_buffer # <<>>
    /\ LET item == QueueGet(upstream_buffer) IN
       /\ upstream_buffer' = QueueRest(upstream_buffer)
       /\ IF UpConnWritable(upClosed)
          THEN \/ /\ upWritten' = Append(upWritten, UpWrite(item.data, item.tp))
                  /\ drain' = "send"
                  /\ UNCHANGED <<dropped, drainResult>>
               \/ \* the write raises on a lost connection: the task dies
                  /\ serverGone
                  /\ dropped' = Append(dropped, item)
                  /\ drain' = "done"
                  /\ drainResult' = "exception"
                  /\ UNCHANGED upWritten
          ELSE \* the upstream socket is closed: the item is discarded
               /\ dropped' = Append(dropped, item)
               /\ drain' = "get"
               /\ UNCHANGED <<upWritten, drainResult>>
    /\ UNCHANGED <<hpc, wsResp, upc, dpc, drainCancel, dExc, raised, tasks,
                   downClosed, upClosed, downIn, upIn, enq,
                   downWritten, upRecvd, wsEnvVars, forced>>
    /\ UNCHANGED <<libVars, appVars, routeVars, reqVars, webVars>>

\* the await of send_str / send_bytes on the upstream socket returns
DrainSendDone ==
    /\ drain = "send"
    /\ ~drainCancel
    /\ drain' = "get"
    /\ UNCHANGED <<hpc, wsResp, upc, dpc, drainCancel, drainResult, dExc,
                   raised, tasks,
                   downClosed, upClosed, downIn, upIn, upstream_buffer, enq,
                   upWritten, downWritten, upRecvd, dropped, wsEnvVars, forced>>
    /\ UNCHANGED <<libVars, appVars, routeVars, reqVars, webVars>>

\* how a cancelled drain task ends: CancelledError thrown at its await is
\* caught (except CancelledError: pass); thrown into a task that never ran
\* it is raised before the try is entered
CancelOutcome(st) == IF st = "new" THEN "cancelled" ELSE "returned"

\* the cancelled drain task runs its next step
DrainCancelled ==
    /\ drainCancel
    /\ drain \in {"new", "get", "send"}
    /\ drain' = "done"
    /\ drainResult' = CancelOutcome(drain)
    /\ UNCHANGED <<hpc, wsResp, upc, dpc, drainCancel, dExc, raised, tasks,
                   downClosed, upClosed, downIn, upIn, upstream_buffer, enq,
                   upWritten, downWritten, upRecvd, dropped, wsEnvVars, forced>>
    /\ UNCHANGED <<libVars, appVars, routeVars, reqVars, webVars>>

(***************************************************************************)
(* The two peers of a bridge session.                                      *)
(***************************************************************************)
SessionOpen == hpc \in {"prepare", "proxy"}

\* the downstream client sends a frame
ClientSend(tp) ==
    /\ SessionOpen
    /\ upc \notin {"closing", "done"}
    /\ ~clientGone
    /\ nSent < MaxFrames
    /\ nSent' = nSent + 1
    /\ downIn' = Append(downIn, [type |-> tp, data |-> nSent + 1])
    /\ UNCHANGED <<hpc, wsResp, upc, dpc, drain, drainCancel, drainResult,
                   dExc, raised, tasks, downClosed, upClosed, upIn,
                   upstream_buffer, enq,
                   upWritten, downWritten, upRecvd, dropped, nUpSent,
                   clientGone, serverGone, forced>>
    /\ UNCHANGED <<libVars, appVars, routeVars, reqVars, webVars>>

\* the downstream client disconnects: a close frame, or a broken connection
\* read as an error message
ClientEnd(tp) ==
    /\ SessionOpen
    /\ upc \notin {"closing", "done"}
    /\ ~clientGone
    /\ clientGone' = TRUE
    /\ downIn' = Append(downIn, [type |-> tp, data |-> 0])
    /\ UNCHANGED <<hpc, wsResp, upc, dpc, drain, drainCancel, drainResult,
                   dExc, raised, tasks, downClosed, upClosed, upIn,
                   upstream_buffer, enq,
                   upWritten, downWritten, upRecvd, dropped, nSent, nUpSent,
                   serverGone, forced>>
    /\ UNCHANGED <<libVars, appVars, routeVars, reqVars, webVars>>

\* the upstream server sends a frame, the max-th at most
ServerSendUpTo(tp, max) ==
    /\ SessionOpen
    /\ dpc \notin {"join", "closing", "done"}
    /\ ~serverGone /\ ~upClosed
    /\ nUpSent < max
    /\ nUpSent' = nUpSent + 1
    /\ upIn' = Append(upIn, [type |-> tp, data |-> nUpSent + 1])
    /\ UNCHANGED <<hpc, wsResp, upc, dpc, drain, drainCancel, drainResult,
                   dExc, raised, tasks, downClosed, upClosed, downIn,
                   upstream_buffer, enq,
                   upWritten, downWritten, upRecvd, dropped, nSent,
                   clientGone, serverGone, forced>>
    /\ UNCHANGED <<libVars, appVars, routeVars, reqVars, webVars>>

ServerSend(tp) == ServerSendUpTo(tp, MaxUpFrames)

\* the upstream server disconnects
ServerEnd(tp) ==
    /\ SessionOpen
    /\ dpc \notin {"join", "closing", "done"}
    /\ ~serverGone /\ ~upClosed
    /\ serverGone' = TRUE
    /\ upIn' = Append(upIn, [type |-> tp, data |-> 0])
    /\ UNCHANGED <<hpc, wsResp, upc, dpc, drain, drainCancel, drainResult,
                   dExc, raised, tasks, downClosed, upClosed, downIn,
                   upstream_buffer, enq,
                   upWritten, downWritten, upRecvd, dropped, nSent, nUpSent,
                   clientGone, forced>>
    /\ UNCHANGED <<libVars, appVars, routeVars, reqVars, webVars>>

(***************************************************************************)
(* The request is over: the handler returned and the tasks it started have *)
(* ended.  The next request finds nothing of it.                           *)
(***************************************************************************)
WebOver == handler = "web_handler" /\ wpc = "done"
WsOver ==
    /\ handler = "websocket_handler" /\ hpc = "done"
    /\ dpc \in {"none", "done"} /\ drain \in {"none", "done"}

\* the response the handler of the request returned
Answer == IF handler = "web_handler" THEN webResp ELSE wsResp

RequestOver ==
    /\ WebOver \/ WsOver
    /\ run502' = IF Answer.status = 502 THEN run502 + 1 ELSE 0
    /\ handler' = "none" /\ method' = "none" /\ excAt' = NoExc
    /\ upErr' = NoResp /\ session' = 0
    /\ wpc' = "idle" /\ upResp' = NoResp /\ upBody' = <<>> /\ chunk' = <<>>
    /\ downResp' = NoResp /\ prepared' = FALSE /\ readLog' = <<>>
    /\ writeLog' = <<>> /\ upHandle' = "none" /\ webResp' = NoResp
    /\ hpc' = "idle" /\ wsResp' = NoResp
    /\ upc' = "none" /\ dpc' = "none" /\ drain' = "none"
    /\ drainCancel' = FALSE /\ drainResult' = "none" /\ dExc' = FALSE
    /\ raised' = {} /\ tasks' = NoTasks
    /\ downClosed' = FALSE /\ upClosed' = FALSE
    /\ downIn' = <<>> /\ upIn' = <<>> /\ upstream_buffer' = <<>>
    /\ enq' = <<>> /\ upWritten' = <<>> /\ downWritten' = <<>>
    /\ upRecvd' = <<>> /\ dropped' = <<>>
    /\ nSent' = 0 /\ nUpSent' = 0
    /\ clientGone' = FALSE /\ serverGone' = FALSE /\ forced' = FALSE
    /\ UNCHANGED <<libVars, appVars, routeVars, nReq>>

(***************************************************************************)
(* The dispatch and the path rewriting as functions of one request.        *)
(***************************************************************************)
InitRoute ==
    /\ LibIdle
    /\ AppUp
    /\ rMethod \in Methods /\ rPath \in Paths
    /\ rHandler = "none" /\ rFwd = <<>>
    /\ nReq = 0 /\ run502 = 0 /\ ReqIdle
    /\ WebIdle
    /\ WsIdle

\* the router picks the handler, whose first statement rewrites the path
Dispatch ==
    /\ rHandler = "none"
    /\ rHandler' = Route(rMethod, rPath)
    /\ rFwd' = StripVersion(rPath)
    /\ UNCHANGED <<libVars, appVars, rMethod, rPath, reqVars, webVars,
                   wsVars>>

NextRoute == Dispatch

SpecRoute == InitRoute /\ [][NextRoute]_vars

(***************************************************************************)
(* The proxy serving a request.                                            *)
(***************************************************************************)
WebNext ==
    \/ \E r \in UpResponses, b \in Bodies : WebFetchOk(r, b)
    \/ \E e \in ConnectErrors : WebFetchRaise(e)
    \/ WebPrepare
    \/ \E n \in 0..MaxBody : WebRead(n)
    \/ WebWrite
    \/ \E e \in StreamErrors : WebRaise(e)

\* the steps of the bridge but the upstream writes of the drain task
PumpNext ==
    \/ UpstreamRecv
    \/ UpstreamCloseDone
    \/ WsReturn
    \/ DownstreamStart
    \/ DownstreamRecv
    \/ DownstreamSendDone
    \/ DownstreamJoin
    \/ DownstreamCloseDone
    \/ DrainBlock
    \/ DrainCancelled

BridgeNext ==
    \/ PumpNext
    \/ DrainStep
    \/ DrainSendDone

WsNext ==
    \/ WsConnectOk
    \/ \E e \in ConnectErrors : WsConnectRaise(e)
    \/ WsPrepare
    \/ \E e \in StreamErrors : WsPrepareRaise(e)
    \/ UpstreamCancel
    \/ UpstreamCancelInClose
    \/ BridgeNext

PeerNext ==
    \/ \E tp \in FrameTypes : ClientSend(tp)
    \/ \E tp \in EndTypes : ClientEnd(tp)
    \/ \E tp \in FrameTypes : ServerSend(tp)
    \/ \E tp \in EndTypes : ServerEnd(tp)

\* one request, from its arrival to the end of what its handler started
Next ==
    \/ \E m \in Methods, p \in SamplePaths : RequestArrives(m, p)
    \/ WebNext
    \/ WsNext
    \/ PeerNext

Spec == Init /\ [][Next]_vars

\* requests served one after the other, each up to the point where its
\* handler has answered or a bridge session would start
RequestsNext ==
    \/ \E m \in Methods, p \in SamplePaths : RequestArrives(m, p)
    \/ WebNext
    \/ WsConnectOk
    \/ \E e \in ConnectErrors : WsConnectRaise(e)
    \/ \E e \in StreamErrors : WsPrepareRaise(e)
    \/ RequestOver

SpecRequests == Init /\ [][RequestsNext]_vars

\* every task of the event loop that can run does run; the peers and the
\* arrival of requests are under no obligation
Fairness ==
    /\ WF_vars(UpstreamRecv)
    /\ WF_vars(UpstreamCloseDone)
    /\ WF_vars(WsReturn)
    /\ WF_vars(DownstreamStart)
    /\ WF_vars(DownstreamRecv)
    /\ WF_vars(DownstreamSendDone)
    /\ WF_vars(DownstreamJoin)
    /\ WF_vars(DownstreamCloseDone)
    /\ WF_vars(DrainBlock)
    /\ WF_vars(DrainStep)
    /\ WF_vars(DrainSendDone)
    /\ WF_vars(DrainCancelled)

FairSpec == Spec /\ Fairness

\* a bridge session in which a pump can fail at any of its steps.  The
\* upstream server talks and the downstream client only listens and leaves:
\* the queue stays empty and the drain task has nothing to write
FaultsNext ==
    \/ \E p \in {STREAM \o <<"x">>, WSPROXY \o <<"x">>} :
           RequestArrives("GET", p)
    \/ WsConnectOk
    \/ \E e \in ConnectErrors : WsConnectRaise(e)
    \/ WsPrepare
    \/ \E e \in StreamErrors : WsPrepareRaise(e)
    \/ UpstreamCancel
    \/ UpstreamCancelInClose
    \/ PumpNext
    \/ UpstreamRaise
    \/ WsProxyRaised
    \/ DownstreamRaise
    \/ \E tp \in FrameTypes : ServerSendUpTo(tp, MaxDownFrames)
    \/ \E tp \in EndTypes : ServerEnd(tp)
    \/ \E tp \in EndTypes : ClientEnd(tp)

SpecFaults == Init /\ [][FaultsNext]_vars

\* one bridge session with frames in both directions and both peers
\* ending, without failures of the set-up and without cancellation
WritesNext ==
    \/ \E p \in {STREAM \o <<"x">>} : RequestArrives("GET", p)
    \/ WsConnectOk
    \/ WsPrepare
    \/ BridgeNext
    \/ \E tp \in FrameTypes : ClientSend(tp)
    \/ \E tp \in EndTypes : ClientEnd(tp)
    \/ \E tp \in FrameTypes : ServerSend(tp)
    \/ \E tp \in EndTypes : ServerEnd(tp)

SpecWrites == Init /\ [][WritesNext]_vars

(***************************************************************************)
(* The life of the proxy application: web.run_app runs the startup hook    *)
(* before it serves requests and the cleanup hook when it stops.           *)
(***************************************************************************)
InitApp ==
    /\ LibIdle
    /\ appState = "created" /\ sessions = <<>> /\ client_session = 0
    /\ RouteIdle
    /\ nReq = 0 /\ run502 = 0 /\ ReqIdle
    /\ WebIdle
    /\ WsIdle

\* startup_proxy: app['client_session'] = AsyncSession()
StartupProxy ==
    /\ appState = "created"
    /\ sessions' = Append(sessions, NewAsyncSession)
    /\ client_session' = Len(sessions) + 1
    /\ appState' = "running"
    /\ UNCHANGED <<libVars, routeVars, reqVars, webVars, wsVars>>

\* a cleanup hook that leaves the session open
CleanupProxySkipped ==
    /\ appState = "running"
    /\ sessions' = sessions
    /\ appState' = "cleaned"
    /\ UNCHANGED <<libVars, client_session, routeVars, reqVars, webVars,
                   wsVars>>

\* cleanup_proxy: await app['client_session'].close()
CleanupProxy ==
    /\ appState = "running"
    /\ sessions' = [sessions EXCEPT
                        ![client_session] = AsyncSessionClose(@)]
    /\ appState' = "cleaned"
    /\ UNCHANGED <<libVars, client_session, routeVars, reqVars, webVars,
                   wsVars>>

AppNext ==
    \/ StartupProxy
    \/ CleanupProxy
    \/ RequestsNext

SpecApp == InitApp /\ [][AppNext]_vars

(***************************************************************************)
(* session.py: a Session, the _SyncWorkerThread it starts, and the thread  *)
(* that constructs the session, enters its context, makes API calls and    *)
(* leaves.  The two queues are queue.Queue objects without a size limit.   *)
(***************************************************************************)
CreateCoro == [op |-> "create"]
NegotiateCoro == [op |-> "negotiate"]
CloseCoro == [op |-> "close"]
ApiCoro == [op |-> "api"]
\* _SyncWorkerThread.sentinel
Sentinel == [op |-> "sentinel"]

\* how run_until_complete(coro) can end: with a value, with an Exception,
\* or with a BaseException that is not an Exception
Outcomes(op) ==
    IF op \in {"create", "close"} THEN {"value"}
    ELSE IF op = "negotiate" THEN {"value", "Exception"}
    ELSE {"value", "Exception", "BaseException"}

otherSessVars == <<asessVars, rqstVars, appVars, routeVars, reqVars, webVars,
                   wsVars, moreVars>>

\* _SyncWorkerThread.run: coro = self.work_queue.get(); the sentinel ends
\* the loop and the thread
WorkerGet ==
    /\ wt = "get"
    /\ work_queue # <<>>
    /\ work_queue' = Tail(work_queue)
    /\ IF Head(work_queue) = Sentinel
       THEN wt' = "done" /\ running' = running
       ELSE wt' = "run" /\ running' = Head(work_queue)
    /\ UNCHANGED <<sess, done_queue, cpc, cret, ctx, pending, nCalls>>
    /\ UNCHANGED otherSessVars

\* what a coroutine does to the aiohttp session when it runs to its end
CoroEffect(s, op) ==
    IF op = "create" THEN [s EXCEPT !.http = "open"]
    ELSE IF op = "close"
    THEN [s EXCEPT !.http = "closed", !.httpCloses = @ + 1]
    ELSE s

\* _SyncWorkerThread.run: result = loop.run_until_complete(coro), and the
\* result or the Exception is put on done_queue; any other BaseException
\* leaves the loop and ends the thread
WorkerRun(o) ==
    /\ wt = "run"
    /\ o \in Outcomes(running.op)
    /\ running' = NoCoro
    /\ IF o = "BaseException"
       THEN wt' = "died" /\ UNCHANGED <<sess, done_queue>>
       ELSE /\ wt' = "get"
            /\ sess' = (IF o = "value" THEN CoroEffect(sess, running.op)
                                       ELSE sess)
            /\ done_queue' = Append(done_queue, [kind |-> o, of |-> running.op])
    /\ UNCHANGED <<work_queue, cpc, cret, ctx, pending, nCalls>>
    /\ UNCHANGED otherSessVars

\* Session.__init__: the worker thread is started and execute() is called
\* with the coroutine that creates the aiohttp session
SessionInit ==
    /\ cpc = "new"
    /\ sess' = [sess EXCEPT !.closed = FALSE]
    /\ wt' = "get"
    /\ work_queue' = Append(work_queue, CreateCoro)
    /\ cpc' = "execute" /\ cret' = "init"
    /\ UNCHANGED <<done_queue, running, ctx, pending, nCalls>>
    /\ UNCHANGED otherSessVars

\* _SyncWorkerThread.execute after its put: result = self.done_queue.get(),
\* then the result is raised or returned to the caller of execute
ExecuteGet ==
    /\ cpc = "execute"
    /\ done_queue # <<>>
    /\ done_queue' = Tail(done_queue)
    /\ LET result == Head(done_queue) IN
       IF cret = "init"
       THEN cpc' = "made" /\ UNCHANGED <<sess, ctx, pending>>
       ELSE IF cret = "enter"
       THEN IF result.kind = "Exception"
            THEN \* __enter__ raises: the block is not entered
                 /\ cpc' = "failed" /\ pending' = "Exception"
                 /\ UNCHANGED <<sess, ctx>>
            ELSE /\ sess' = [sess EXCEPT !.api_version = "negotiated"]
                 /\ ctx' = [state |-> "in", exc |-> "none"]
                 /\ cpc' = "body"
                 /\ UNCHANGED pending
       ELSE \* a call made inside the block
            IF result.kind = "Exception"
            THEN /\ pending' = "Exception"
                 /\ ctx' = [ctx EXCEPT !.exc = "Exception"]
                 /\ cpc' = "exit"
                 /\ UNCHANGED sess
            ELSE cpc' = "body" /\ UNCHANGED <<sess, ctx, pending>>
    /\ cret' = "none"
    /\ UNCHANGED <<work_queue, wt, running, nCalls>>
    /\ UNCHANGED otherSessVars

\* an __enter__ without the assertion
SessionEnterNoAssert ==
    /\ cpc = "made"
    /\ work_queue' = Append(work_queue, NegotiateCoro)
    /\ cpc' = "execute" /\ cret' = "enter"
    /\ UNCHANGED pending
    /\ UNCHANGED <<sess, done_queue, wt, running, ctx, nCalls>>
    /\ UNCHANGED otherSessVars

\* Session.__enter__: the assertion, then execute() is called with the
\* coroutine of _negotiate_api_version
SessionEnter ==
    /\ cpc = "made"
    /\ IF sess.closed
       THEN /\ pending' = "AssertionError" /\ cpc' = "failed"
            /\ UNCHANGED <<work_queue, cret>>
       ELSE /\ work_queue' = Append(work_queue, NegotiateCoro)
            /\ cpc' = "execute" /\ cret' = "enter"
            /\ UNCHANGED pending
    /\ UNCHANGED <<sess, done_queue, wt, running, ctx, nCalls>>
    /\ UNCHANGED otherSessVars

\* inside the block: a function proxy calls execute() with its coroutine
MakeCall ==
    /\ cpc = "body"
    /\ nCalls < MaxCalls
    /\ nCalls' = nCalls + 1
    /\ work_queue' = Append(work_queue, ApiCoro)
    /\ cpc' = "execute" /\ cret' = "body"
    /\ UNCHANGED <<sess, done_queue, wt, running, ctx, pending>>
    /\ UNCHANGED otherSessVars

\* the block raises by itself
BodyRaise ==
    /\ cpc = "body"
    /\ pending' = "Exception"
    /\ ctx' = [ctx EXCEPT !.exc = "Exception"]
    /\ cpc' = "exit"
    /\ UNCHANGED <<sess, work_queue, done_queue, wt, running, cret, nCalls>>
    /\ UNCHANGED otherSessVars

\* the block runs to its end
BodyEnd ==
    /\ cpc = "body"
    /\ cpc' = "exit"
    /\ UNCHANGED <<sess, work_queue, done_queue, wt, running, cret, ctx,
                   pending, nCalls>>
    /\ UNCHANGED otherSessVars

\* where the caller of close() goes on when close() returns; __exit__
\* returns False, the exception of the block stays pending
AfterClose(ret) ==
    IF ret = "exit"
    THEN cpc' = "left" /\ ctx' = [ctx EXCEPT !.state = "left"]
    ELSE cpc' = ret /\ ctx' = ctx

\* a close() that puts the sentinel where the close coroutine belongs
CloseStartNoCoro(ret) ==
    IF sess.closed
    THEN AfterClose(ret) /\ UNCHANGED <<sess, work_queue, cret>>
    ELSE /\ sess' = [sess EXCEPT !.closed = TRUE]
         /\ work_queue' = Append(work_queue, Sentinel)
         /\ cpc' = "close_put" /\ cret' = ret
         /\ ctx' = ctx

\* Session.close up to its first put: nothing when already closed, else
\* _closed is set and the close coroutine of the aiohttp session is put
CloseStart(ret) ==
    IF sess.closed
    THEN AfterClose(ret) /\ UNCHANGED <<sess, work_queue, cret>>
    ELSE /\ sess' = [sess EXCEPT !.closed = TRUE]
         /\ work_queue' = Append(work_queue, CloseCoro)
         /\ cpc' = "close_put" /\ cret' = ret
         /\ ctx' = ctx

\* close() called on the session object outside __exit__
SessionClose ==
    /\ cpc \in {"made", "body", "left"}
    /\ CloseStart(cpc)
    /\ UNCHANGED <<done_queue, wt, running, pending, nCalls>>
    /\ UNCHANGED otherSessVars

\* an __exit__ that does not close
SessionExitNoClose ==
    /\ cpc = "exit"
    /\ AfterClose("exit")
    /\ UNCHANGED <<sess, work_queue, cret>>
    /\ UNCHANGED <<done_queue, wt, running, pending, nCalls>>
    /\ UNCHANGED otherSessVars

\* Session.__exit__: self.close(), return False
SessionExit ==
    /\ cpc = "exit"
    /\ CloseStart("exit")
    /\ UNCHANGED <<done_queue, wt, running, pending, nCalls>>
    /\ UNCHANGED otherSessVars

\* Session.close: the second put, of the sentinel
ClosePutSentinel ==
    /\ cpc = "close_put"
    /\ work_queue' = Append(work_queue, Sentinel)
    /\ cpc' = "join"
    /\ UNCHANGED <<sess, done_queue, wt, running, cret, ctx, pending, nCalls>>
    /\ UNCHANGED otherSessVars

\* Session.close: self._worker_thread.join() returns when the thread ended
CloseJoin ==
    /\ cpc = "join"
    /\ wt \in {"done", "died"}
    /\ AfterClose(cret)
    /\ cret' = "none"
    /\ UNCHANGED <<sess, work_queue, done_queue, wt, running, pending, nCalls>>
    /\ UNCHANGED otherSessVars

(***************************************************************************)
(* session.py: an AsyncSession and the task that uses it.                  *)
(***************************************************************************)
otherAsessVars == <<sessVars, rqstVars, appVars, routeVars, reqVars, webVars,
                    wsVars, moreVars>>

\* AsyncSession.__init__
AsyncSessionInit ==
    /\ apc = "new"
    /\ asess' = NewAsyncSession
    /\ apc' = "made"
    /\ UNCHANGED <<actx, apending>>
    /\ UNCHANGED otherAsessVars

\* AsyncSession.__aenter__: the assertion, then the negotiation, which
\* returns a version or raises
AsyncSessionEnter(o) ==
    /\ apc = "made"
    /\ IF asess.closed
       THEN /\ apending' = "AssertionError" /\ apc' = "failed"
            /\ UNCHANGED <<asess, actx>>
       ELSE IF o = "Exception"
       THEN /\ apending' = "Exception" /\ apc' = "failed"
            /\ UNCHANGED <<asess, actx>>
       ELSE /\ asess' = [asess EXCEPT !.api_version = "negotiated"]
            /\ actx' = [state |-> "in", exc |-> "none"]
            /\ apc' = "body"
            /\ UNCHANGED apending
    /\ UNCHANGED otherAsessVars

\* the async with block ends, normally or with an exception
AsyncBodyEnd(e) ==
    /\ apc = "body"
    /\ apending' = e
    /\ actx' = [actx EXCEPT !.exc = e]
    /\ apc' = "exit"
    /\ UNCHANGED asess
    /\ UNCHANGED otherAsessVars

\* await session.close() outside __aexit__
AsyncClose ==
    /\ apc \in {"made", "body", "left"}
    /\ asess' = AsyncSessionClose(asess)
    /\ UNCHANGED <<apc, actx, apending>>
    /\ UNCHANGED otherAsessVars

\* AsyncSession.__aexit__: await self.close(), return False
AsyncSessionExit ==
    /\ apc = "exit"
    /\ asess' = AsyncSessionClose(asess)
    /\ actx' = [actx EXCEPT !.state = "left"]
    /\ apc' = "left"
    /\ UNCHANGED apending
    /\ UNCHANGED otherAsessVars

SessionNext ==
    \/ WorkerGet
    \/ \E o \in {"value", "Exception", "BaseException"} : WorkerRun(o)
    \/ SessionInit
    \/ ExecuteGet
    \/ SessionEnter
    \/ MakeCall
    \/ BodyRaise
    \/ BodyEnd
    \/ SessionClose
    \/ SessionExit
    \/ ClosePutSentinel
    \/ CloseJoin
    \/ AsyncSessionInit
    \/ \E o \in {"value", "Exception"} : AsyncSessionEnter(o)
    \/ \E e \in {"none", "Exception"} : AsyncBodyEnd(e)
    \/ AsyncClose
    \/ AsyncSessionExit

SpecSession == Init /\ [][SessionNext]_vars

\* the worker thread and the calling thread are scheduled: a thread that
\* can take its next step takes it
SessionFairness ==
    /\ WF_vars(WorkerGet)
    /\ WF_vars(\E o \in {"value", "Exception", "BaseException"} : WorkerRun(o))
    /\ WF_vars(ExecuteGet)

FairSession == SpecSession /\ SessionFairness

(***************************************************************************)
(* session.py: a second thread that uses the same Session.                 *)
(***************************************************************************)
\* the coroutine of an API call made by the second thread
OtherCoro == [op |-> "api2"]

notThreadVars == <<nego, asessVars, rqstVars, appVars, routeVars, reqVars,
                   webVars, wsVars>>

\* the second thread calls a function proxy of the Session the first thread
\* has made: _SyncWorkerThread.execute up to self.work_queue.put(coro)
OtherExecutePut ==
    /\ pc2 = "idle"
    /\ cpc # "new" /\ ~(cpc = "execute" /\ cret = "init")
    /\ wt \in {"get", "run"}
    /\ ~sess.closed
    /\ work_queue' = Append(work_queue, OtherCoro)
    /\ pc2' = "execute"
    /\ UNCHANGED <<sess, done_queue, wt, running, cpc, cret, ctx, pending,
                   nCalls>>
    /\ UNCHANGED notThreadVars

\* execute() of the second thread after its put: self.done_queue.get()
\* hands it the oldest result on the queue
OtherExecuteGet ==
    /\ pc2 = "execute"
    /\ done_queue # <<>>
    /\ done_queue' = Tail(done_queue)
    /\ pc2' = "returned"
    /\ UNCHANGED <<sess, work_queue, wt, running, cpc, cret, ctx, pending,
                   nCalls>>
    /\ UNCHANGED notThreadVars

\* a Session used by two threads
ThreadsNext ==
    \/ WorkerGet
    \/ \E o \in {"value", "Exception", "BaseException"} : WorkerRun(o)
    \/ SessionInit
    \/ ExecuteGet
    \/ SessionEnter
    \/ MakeCall
    \/ BodyRaise
    \/ BodyEnd
    \/ SessionClose
    \/ SessionExit
    \/ ClosePutSentinel
    \/ CloseJoin
    \/ OtherExecutePut
    \/ OtherExecuteGet

SpecThreads == Init /\ [][ThreadsNext]_vars

(***************************************************************************)
(* sorna/request.py: a Request, its data mapping, its cached content and   *)
(* the Content-Length item of its headers.                                 *)
(***************************************************************************)
\* request.data: an ordered mapping, here the sequence of its keys, every
\* key with the value 1
Datas == { <<>>, <<"a">>, <<"b">>, <<"a", "b">> }

\* the text of one item as json.dumps writes it, a character per element;
\* the key b stands for a letter outside ASCII
JsonItem(k) == <<"q", k, "q", ":", " ", "1">>

RECURSIVE JsonItems(_)
JsonItems(d) ==
    IF d = <<>> THEN <<>>
    ELSE IF Len(d) = 1 THEN JsonItem(Head(d))
    ELSE JsonItem(Head(d)) \o <<",", " ">> \o JsonItems(Tail(d))

\* json.dumps(self.data, ensure_ascii=False)
JsonDumpsData(d) == <<"{">> \o JsonItems(d) \o <<"}">>

\* str.encode(): the UTF-8 bytes of a text; the letter outside ASCII takes
\* two bytes
RECURSIVE Utf8(_)
Utf8(t) ==
    IF t = <<>> THEN <<>>
    ELSE (IF Head(t) = "b" THEN <<"xC3", "xA9">> ELSE <<Head(t)>>)
             \o Utf8(Tail(t))

DigitChars == <<"0", "1", "2", "3", "4", "5", "6", "7", "8", "9">>

\* str(n) for a length n
RECURSIVE DecimalString(_)
DecimalString(n) ==
    IF n < 10 THEN <<DigitChars[n + 1]>>
    ELSE DecimalString(n \div 10) \o <<DigitChars[(n % 10) + 1]>>

\* the values assigned to request.content
ContentValues == { None, Some(<<>>), Some(<<"x">>), Some(<<"x", "y">>) }

otherRqstVars == <<sessVars, asessVars, appVars, routeVars, reqVars, webVars,
                   wsVars, moreVars>>

\* Request.__init__
RequestInit(d) ==
    /\ rq_last.op = "none"
    /\ rq_data' = d
    /\ rq_content' = None
    /\ rq_headers' = None
    /\ rq_last' = [op |-> "init"]
    /\ UNCHANGED nOps
    /\ UNCHANGED otherRqstVars

\* the caller changes request.data
ChangeData(d) ==
    /\ rq_last.op # "none"
    /\ nOps < MaxOps
    /\ nOps' = nOps + 1
    /\ rq_data' = d
    /\ rq_last' = [op |-> "data"]
    /\ UNCHANGED <<rq_content, rq_headers>>
    /\ UNCHANGED otherRqstVars

\* what the getter computes when nothing is cached
ComputedContent(d) == IF d = <<>> THEN <<>> ELSE Utf8(JsonDumpsData(d))

\* a getter that computes the content at every read
ReadContentNoCache ==
    /\ rq_last.op # "none"
    /\ nOps < MaxOps
    /\ nOps' = nOps + 1
    /\ rq_content' = Some(ComputedContent(rq_data))
    /\ rq_headers' = Some(DecimalString(Len(ComputedContent(rq_data))))
    /\ rq_last' = [op |-> "read", result |-> ComputedContent(rq_data)]
    /\ UNCHANGED rq_data
    /\ UNCHANGED otherRqstVars

\* the getter of Request.content
ReadContent ==
    /\ rq_last.op # "none"
    /\ nOps < MaxOps
    /\ nOps' = nOps + 1
    /\ IF rq_content = None
       THEN /\ rq_content' = Some(ComputedContent(rq_data))
            /\ rq_headers' =
                   Some(DecimalString(Len(ComputedContent(rq_data))))
            /\ rq_last' = [op |-> "read", result |-> ComputedContent(rq_data)]
       ELSE /\ rq_last' = [op |-> "read", result |-> rq_content[1]]
            /\ UNCHANGED <<rq_content, rq_headers>>
    /\ UNCHANGED rq_data
    /\ UNCHANGED otherRqstVars

\* a setter without the assertion
SetContentNoAssert(value) ==
    /\ rq_last.op # "none"
    /\ nOps < MaxOps
    /\ nOps' = nOps + 1
    /\ rq_headers' = (IF value # None
                      THEN Some(DecimalString(Len(value[1])))
                      ELSE rq_headers)
    /\ rq_content' = value
    /\ rq_last' = [op |-> "set", value |-> value, raised |-> "none"]
    /\ UNCHANGED rq_data
    /\ UNCHANGED otherRqstVars

\* a setter that leaves Content-Length as it is
SetContentNoHeader(value) ==
    /\ rq_last.op # "none"
    /\ nOps < MaxOps
    /\ nOps' = nOps + 1
    /\ IF value # None /\ rq_data # <<>>
       THEN /\ rq_last' = [op |-> "set", value |-> value,
                           raised |-> "AssertionError"]
            /\ UNCHANGED <<rq_content, rq_headers>>
       ELSE /\ rq_headers' = rq_headers
            /\ rq_content' = value
            /\ rq_last' = [op |-> "set", value |-> value, raised |-> "none"]
    /\ UNCHANGED rq_data
    /\ UNCHANGED otherRqstVars

\* the setter of Request.content
SetContent(value) ==
    /\ rq_last.op # "none"
    /\ nOps < MaxOps
    /\ nOps' = nOps + 1
    /\ IF value # None /\ rq_data # <<>>
       THEN \* assert not self.data
            /\ rq_last' = [op |-> "set", value |-> value,
                           raised |-> "AssertionError"]
            /\ UNCHANGED <<rq_content, rq_headers>>
       ELSE /\ rq_headers' = (IF value # None
                              THEN Some(DecimalString(Len(value[1])))
                              ELSE rq_headers)
            /\ rq_content' = value
            /\ rq_last' = [op |-> "set", value |-> value, raised |-> "none"]
    /\ UNCHANGED rq_data
    /\ UNCHANGED otherRqstVars

RqstNext ==
    \/ \E d \in Datas : RequestInit(d)
    \/ \E d \in Datas : ChangeData(d)
    \/ ReadContent
    \/ \E v \in ContentValues : SetContent(v)

SpecRqst == Init /\ [][RqstNext]_vars

(***************************************************************************)
(* session.py: _negotiate_api_version.                                     *)
(***************************************************************************)
\* release dates of API versions, the strings parse_api_version returns
ApiDates == { <<"2", "0", "1", "9", "0", "6", "1", "5">>,
              <<"2", "0", "1", "9", "1", "2", "1", "5">>,
              <<"2", "0", "2", "0", "0", "3", "1", "5">> }

\* a parsed API version: Tuple[int, str]
ApiVersions == (1..MaxMajor) \X ApiDates

\* the place of a digit character in the order of characters
CharOrd(c) == CHOOSE i \in 1..Len(DigitChars) : DigitChars[i] = c

\* a < b of two str
RECURSIVE StrLess(_, _)
StrLess(a, b) ==
    IF b = <<>> THEN FALSE
    ELSE IF a = <<>> THEN TRUE
    ELSE IF Head(a) # Head(b) THEN CharOrd(Head(a)) < CharOrd(Head(b))
    ELSE StrLess(Tail(a), Tail(b))

\* a < b of two tuples (int, str)
VersionLess(a, b) == a[1] < b[1] \/ (a[1] = b[1] /\ StrLess(a[2], b[2]))

\* a negotiation that answers with the larger version
VersionMax(a, b) == IF VersionLess(a, b) THEN b ELSE a

\* min(a, b): the first argument unless the second is smaller
VersionMin(a, b) == IF VersionLess(b, a) THEN b ELSE a

\* how the probe of the server ends: with the version the server reports,
\* with asyncio.TimeoutError, with an aiohttp.ClientError (raise_for_status
\* included), or with another exception
Probes ==
    { [kind |-> "ok", version |-> v] : v \in ApiVersions }
    \cup { [kind |-> k, version |-> <<0, <<>> >>] :
               k \in {"TimeoutError", "ClientError", "Exception"} }

\* _negotiate_api_version(http_session, config), client being the parsed
\* config.version
NegotiateApiVersion(client, probe) ==
    IF probe.kind = "ok"
    THEN [state |-> "returned", client |-> client, probe |-> probe,
          value |-> VersionMin(probe.version, client),
          warned |-> VersionLess(client, probe.version)]
    ELSE IF probe.kind \in {"TimeoutError", "ClientError"}
    THEN [state |-> "returned", client |-> client, probe |-> probe,
          value |-> client, warned |-> FALSE]
    ELSE [state |-> "raised", client |-> client, probe |-> probe,
          value |-> <<0, <<>> >>, warned |-> FALSE]

\* one call of _negotiate_api_version
Negotiate(client, probe) ==
    /\ nego' = NegotiateApiVersion(client, probe)
    /\ UNCHANGED <<pc2, sessVars, asessVars, rqstVars, appVars, routeVars,
                   reqVars, webVars, wsVars>>

NegotiateNext == \E c \in ApiVersions, p \in Probes : Negotiate(c, p)

SpecNegotiate == Init /\ [][NegotiateNext]_vars

(***************************************************************************)
(* Properties.                                                             *)
(***************************************************************************)
Range(f) == { f[i] : i \in DOMAIN f }

\* the bridge session is over: the handler returned, both pumps ended
SessionOver ==
    /\ handler = "websocket_handler" /\ hpc = "done" /\ upc = "done"
    /\ dpc = "done"

\* C1: every text or binary frame the upstream pump received from the
\* downstream client is written to the upstream socket in the end: when the
\* session is over and the upstream server never failed, no enqueued frame
\* is missing from the upstream writes.
C1_EnqueuedFramesWritten ==
    (SessionOver /\ ~serverGone) => Len(upWritten) = Len(enq)

\* C2: once either side has disconnected, the session reaches a state where
\* both sockets are closed and the queue-drain task is finished.
C2_BothSidesClose ==
    (hpc = "proxy" /\ (serverGone \/ clientGone))
        ~> (downClosed /\ upClosed /\ drain = "done")

\* C3 (as stated): the step in which the upstream pump is cancelled leaves
\* the upstream socket closed and the queue-drain task ended.
C3_ClosedWithinOneStep ==
    [][ (~forced /\ forced') => (upClosed' /\ drain' \in {"none", "done"}) ]_vars

\* C3 (amended): after a forced drop the downstream socket is closed at
\* once, and when the handler has returned and the downstream pump has
\* ended, the upstream pump and the drain task have ended and both sockets
\* are closed.
C3_ForcedDropFinalized ==
    forced =>
        /\ downClosed
        /\ (hpc = "done" /\ dpc = "done") =>
               (upc = "done" /\ drain = "done" /\ upClosed)

C3_Witness ==
    /\ forced /\ hpc = "done" /\ dpc = "done" /\ drainResult = "returned"
    /\ wsResp.kind = "websocket"

\* C4: the upstream writes are a prefix of the enqueued frames: same order,
\* no duplicate, text written with send_str and binary with send_bytes.
C4_WritesPrefixOfEnqueued ==
    /\ Len(upWritten) <= Len(enq)
    /\ \A i \in 1..Len(upWritten) :
          /\ upWritten[i].data = enq[i].data
          /\ enq[i].tp = "TEXT" => upWritten[i].via = "send_str"
          /\ enq[i].tp = "BINARY" => upWritten[i].via = "send_bytes"

C4_Witness ==
    /\ Len(upWritten) = 2
    /\ upWritten[1].via # upWritten[2].via
    /\ upstream_buffer = <<>>

\* the bytes of a that b starts with
IsPrefix(a, b) == Len(a) <= Len(b) /\ SubSeq(b, 1, Len(a)) = a

\* the relay ran to its end: web_handler returned the streamed response
RelayComplete == wpc = "done" /\ webResp.kind = "stream"

\* C5: what was written downstream is a prefix of what was read from
\* upstream, and all of it when the relay completes.
C5_WrittenPrefixOfRead ==
    /\ IsPrefix(writeLog, readLog)
    /\ RelayComplete => (writeLog = readLog /\ upBody = <<>>)

C5_Witness ==
    /\ RelayComplete
    /\ Len(writeLog) = 2
    /\ writeLog[1] # writeLog[2]

\* C6 (as stated): a successful relay answers with the upstream status and
\* reason, every upstream header, and the CORS header.
C6_AllUpstreamHeadersKept ==
    RelayComplete =>
        /\ webResp.status = upResp.status
        /\ webResp.reason = upResp.reason
        /\ \A i \in 1..Len(upResp.headers) :
              upResp.headers[i] \in Range(webResp.headers)
        /\ <<ACAO, "*">> \in Range(webResp.headers)

\* C6 (amended): a successful relay answers with the upstream status and
\* reason, every upstream header other than Access-Control-Allow-Origin,
\* and the CORS header.
C6_UpstreamHeadersKeptButCors ==
    RelayComplete =>
        /\ webResp.status = upResp.status
        /\ webResp.reason = upResp.reason
        /\ \A i \in 1..Len(upResp.headers) :
              Identity(upResp.headers[i][1]) # Identity(ACAO)
                  => upResp.headers[i] \in Range(webResp.headers)
        /\ <<ACAO, "*">> \in Range(webResp.headers)

C6_Witness ==
    /\ RelayComplete
    /\ webResp.status = 201
    /\ <<"Set-Cookie", "a">> \in Range(webResp.headers)
    /\ <<"Set-Cookie", "b">> \in Range(webResp.headers)

\* the values a response carries for Access-Control-Allow-Origin
CorsValues(r) ==
    { r.headers[i][2] : i \in { j \in 1..Len(r.headers) :
                                   Identity(r.headers[j][1]) = Identity(ACAO) } }
CorsCount(r) ==
    Cardinality({ j \in 1..Len(r.headers) :
                      Identity(r.headers[j][1]) = Identity(ACAO) })

\* C7 (as stated): every response web_handler returns carries
\* Access-Control-Allow-Origin with the value "*".
C7_EveryResponseHasCors ==
    webResp # NoResp => CorsValues(webResp) = {"*"}

\* C7 (amended): every response relayed from upstream carries
\* Access-Control-Allow-Origin once, with the value "*", whatever upstream
\* sent; the error responses the handler builds carry no such header.
C7_RelayedResponseHasCors ==
    /\ downResp # NoResp =>
          (CorsValues(downResp) = {"*"} /\ CorsCount(downResp) = 1)
    /\ (webResp # NoResp /\ webResp.kind = "response") =>
          CorsValues(webResp) = {}

C7_Witness ==
    /\ RelayComplete
    /\ \E i \in 1..Len(upResp.headers) :
          /\ Identity(upResp.headers[i][1]) = Identity(ACAO)
          /\ upResp.headers[i][2] # "*"
    /\ CorsValues(webResp) = {"*"}

\* p is /v<digits>/<rest> with k digits
IsVersioned(p, k) ==
    /\ k >= 1 /\ Len(p) >= k + 3
    /\ p[1] = "/" /\ p[2] = "v" /\ p[k + 3] = "/"
    /\ \A i \in 3..(k + 2) : p[i] \in Digits

\* C8: /v<digits>/<rest> is forwarded as /<rest>, with one version segment
\* removed; any other path is forwarded unchanged.
C8_VersionPrefixStripped ==
    rHandler # "none" =>
        /\ \A k \in 1..Len(rPath) :
              IsVersioned(rPath, k) =>
                  rFwd = <<"/">> \o SubSeq(rPath, k + 4, Len(rPath))
        /\ (\A k \in 1..Len(rPath) : ~IsVersioned(rPath, k)) => rFwd = rPath

C8_Witness ==
    /\ rHandler = "web_handler"
    /\ rPath = <<"/", "v", "1", "2", "/", "v", "2", "/", "x">>
    /\ rFwd = <<"/", "v", "2", "/", "x">>

\* C9 (as stated): a path beginning with /stream/ or /wsproxy/ goes to the
\* WebSocket handler whatever the method, every other path to the relay.
C9_RoutedByPathOnly ==
    rHandler # "none" =>
        rHandler = IF StartsWith(rPath, STREAM) \/ StartsWith(rPath, WSPROXY)
                   THEN "websocket_handler" ELSE "web_handler"

\* C9 (amended): a GET request whose path begins with /stream/ or /wsproxy/
\* goes to the WebSocket handler; every other request goes to the relay.
C9_RoutedByMethodAndPath ==
    rHandler # "none" =>
        rHandler = IF /\ rMethod = "GET"
                      /\ StartsWith(rPath, STREAM) \/ StartsWith(rPath, WSPROXY)
                   THEN "websocket_handler" ELSE "web_handler"

C9_Witness ==
    /\ rHandler = "websocket_handler"
    /\ rMethod = "GET"
    /\ StartsWith(rPath, WSPROXY)

\* C10: when fetch() or connect_websocket() raises BackendClientError the
\* handler answers 502 Bad Gateway with the fixed message, for every method
\* and for every request of a run of such requests.
C10_Unreachable502 ==
    (excAt.kind = "BackendClientError" /\ excAt.stage \in {"fetch", "connect"})
        => /\ Answer.kind = "response"
           /\ Answer.status = 502
           /\ Answer.reason = "Bad Gateway"
           /\ Answer.body = Inaccessible

C10_Witness ==
    /\ nReq = 2 /\ run502 = 1
    /\ handler = "web_handler" /\ method = "POST"
    /\ excAt = [kind |-> "BackendClientError", stage |-> "fetch"]
    /\ webResp.status = 502

\* C11: when fetch() raises BackendAPIError for an error answer of the
\* upstream server, web_handler answers with the status and the reason of
\* that answer and with its body, unmodified.
C11_ApiErrorBodyUnmodified ==
    (handler = "web_handler" /\ upErr # NoResp) =>
        /\ webResp.kind = "response"
        /\ webResp.status = upErr.status
        /\ webResp.reason = upErr.reason
        /\ webResp.body = upErr.body

\* the handler of the request in flight has returned
HandlerDone ==
    \/ handler = "web_handler" /\ wpc = "done"
    \/ handler = "websocket_handler" /\ hpc = "done"

\* the 503 answer with the fixed shut-down message
Is503(r) ==
    /\ r.kind = "response" /\ r.status = 503
    /\ r.reason = "Service Unavailable" /\ r.body = ShutDown

\* C12 (as stated): when the handler task was cancelled at an await, of the
\* relay or of the bridge, the handler answers 503 Service Unavailable with
\* the fixed shut-down message.
C12_CancelledAnywhere503 ==
    (HandlerDone /\ (excAt.kind = "CancelledError" \/ forced)) => Is503(Answer)

\* C12 (amended): a cancellation that reaches an except clause of the
\* handler (any await of web_handler; connect_websocket, prepare and the
\* close of the downstream socket in websocket_handler) is answered 503
\* with the fixed message; a cancellation delivered while the upstream pump
\* awaits a downstream frame is swallowed by the pump and the handler
\* returns the WebSocket response.
C12_CancelledOutsidePump503 ==
    /\ excAt.kind = "CancelledError" => (HandlerDone /\ Is503(Answer))
    /\ (HandlerDone /\ forced /\ excAt = NoExc) => wsResp.kind = "websocket"

C12_Witness ==
    /\ handler = "websocket_handler" /\ hpc = "done"
    /\ excAt = [kind |-> "CancelledError", stage |-> "proxy"]
    /\ Is503(wsResp)

\* C13: a handler that has ended has returned a response, whatever was
\* raised; what is neither an API error, nor a client error, nor a
\* cancellation is answered 500 Internal Server Error with the fixed message.
C13_HandlersTotal ==
    /\ HandlerDone => Answer.kind \in {"response", "stream", "websocket"}
    /\ excAt # NoExc => (HandlerDone /\ Answer.kind = "response")
    /\ excAt.kind = "Exception" =>
          /\ Answer.status = 500
          /\ Answer.reason = "Internal Server Error"
          /\ Answer.body = GoneWrong

C13_Witness ==
    /\ handler = "web_handler" /\ HandlerDone
    /\ excAt = [kind |-> "Exception", stage |-> "read"]
    /\ webResp.status = 500 /\ webResp.body = GoneWrong

\* C14: a handler that acquired the upstream resource has released it when
\* it has returned: the upstream response of web_handler, the upstream
\* WebSocket of websocket_handler.
C14_UpstreamReleasedOnReturn ==
    /\ (handler = "web_handler" /\ HandlerDone
            /\ (excAt = NoExc \/ excAt.stage # "fetch"))
          => upHandle = "released"
    /\ (handler = "websocket_handler" /\ HandlerDone
            /\ (excAt = NoExc \/ excAt.stage # "connect"))
          => upClosed

C14_Witness ==
    /\ handler = "web_handler" /\ HandlerDone
    /\ excAt = [kind |-> "Exception", stage |-> "write"]
    /\ Len(writeLog) = 1 /\ Len(readLog) = 2
    /\ upHandle = "released"

\* C15: one session is created per application, by the startup hook; a
\* handler uses that session; the session is closed by the cleanup hook and
\* not before, and by nothing else.
C15_OneSharedSession ==
    /\ Len(sessions) = (IF appState = "created" THEN 0 ELSE 1)
    /\ appState # "created" =>
          /\ client_session = 1
          /\ sessions[1].closed = (appState = "cleaned")
          /\ sessions[1].http = (IF appState = "cleaned" THEN "closed"
                                                        ELSE "open")
    /\ handler # "none" => session = client_session

C15_Witness ==
    /\ appState = "cleaned" /\ nReq = 2 /\ handler = "none"
    /\ sessions = << [closed |-> TRUE, http |-> "closed", httpCloses |-> 1,
                      api_version |-> "none"] >>

\* C20: whatever state the drain task is in when close_upstream cancels
\* it, the await of the task ends without CancelledError, so that the
\* finalizer is not left by an exception before it looks at the upstream
\* socket.
C20_DrainCancelContained ==
    (drainCancel /\ drain = "done") => (drainResult = "returned" /\ ~dExc)

\* C16: when the block of a Session or of an AsyncSession has been left,
\* normally or by an exception, the session is closed, its aiohttp session
\* has been closed, and the exception of the block is still pending.
C16_ContextExitCloses ==
    /\ ctx.state = "left" =>
          (sess.closed /\ sess.http = "closed" /\ pending = ctx.exc)
    /\ actx.state = "left" =>
          (asess.closed /\ asess.http = "closed" /\ apending = actx.exc)

C16_Witness ==
    /\ ctx = [state |-> "left", exc |-> "Exception"]
    /\ nCalls = 2 /\ pending = "Exception"
    /\ actx = [state |-> "left", exc |-> "Exception"]

\* the caller is inside Session.close, between its first put and the
\* return of join
InClose == cpc \in {"close_put", "join"}

\* C17: a sentinel on the work queue has the close coroutine before it, or
\* the close coroutine is running or has run; the worker that took the
\* sentinel has run the close coroutine; and once close() has returned on
\* a closed session the worker thread has terminated.
C17_CloseBeforeSentinel ==
    /\ \A i \in 1..Len(work_queue) :
          work_queue[i] = Sentinel =>
              \/ \E j \in 1..(i - 1) : work_queue[j] = CloseCoro
              \/ running = CloseCoro
              \/ sess.http = "closed"
    /\ wt = "done" => (sess.http = "closed" /\ sess.httpCloses = 1)
    /\ (sess.closed /\ ~InClose) => wt \in {"done", "died"}

C17_Witness ==
    /\ cpc = "body" /\ sess.closed /\ wt = "done"
    /\ sess.http = "closed" /\ work_queue = <<>>

\* a step that is one operation on the Request
RqstStep == nOps' = nOps + 1

\* C18: a read of content returns the cached value when there is one,
\* whatever the data, and else what is computed from the current data, which
\* it caches; a change of the data leaves the cached value as it is.
C18_ContentCached ==
    [][ /\ (RqstStep /\ rq_last'.op = "read") =>
              /\ rq_last'.result = (IF rq_content = None
                                    THEN ComputedContent(rq_data)
                                    ELSE rq_content[1])
              /\ rq_content' = Some(rq_last'.result)
        /\ (RqstStep /\ rq_last'.op = "data") => rq_content' = rq_content
      ]_vars

C18_Witness ==
    /\ rq_last.op = "read" /\ nOps = 4
    /\ rq_content = Some(<<>>) /\ rq_last.result = <<>>
    /\ rq_data = <<"a", "b">>

\* C19: assigning a value other than None to content while the data is
\* not empty raises AssertionError and changes neither the cached content
\* nor Content-Length.
C19_SetWithDataRefused ==
    [][ (RqstStep /\ rq_last'.op = "set" /\ rq_last'.value # None
             /\ rq_data # <<>>) =>
            /\ rq_last'.raised = "AssertionError"
            /\ rq_content' = rq_content
            /\ rq_headers' = rq_headers
      ]_vars

C19_Witness ==
    /\ rq_last = [op |-> "set", value |-> Some(<<"x">>),
                  raised |-> "AssertionError"]
    /\ rq_data = <<"a", "b">>
    /\ rq_content = Some(Utf8(JsonDumpsData(<<"a", "b">>)))
    /\ rq_headers = Some(<<"1", "7">>)

\* an exception raised inside a pump has left proxy() into the handler
EscapedProxy ==
    /\ handler = "websocket_handler" /\ hpc = "done"
    /\ excAt = [kind |-> "Exception", stage |-> "proxy"]

C22_OneResponsePerRequest ==
    /\ writeLog # <<>> => prepared
    /\ (handler = "web_handler" /\ wpc = "done" /\ prepared) =>
           webResp = downResp

\* C23: once the downstream WebSocket of a session is established (prepare
\* returned and proxy() runs), websocket_handler returns the WebSocket
\* response: a failure of the bridge is never answered with an HTTP error
\* response that has a body.
C23_BridgeFailureOnlyCloses ==
    (handler = "websocket_handler" /\ hpc = "done" /\ upc # "none") =>
        wsResp = [kind |-> "websocket", status |-> 101]

C25_FinalizersLeaveAllClosed ==
    (upc = "done" /\ dpc = "done") =>
        (downClosed /\ upClosed /\ drain = "done")

\* a step in which upstream() receives a close frame
ReceivedClose ==
    /\ downIn # <<>> /\ Head(downIn).type = "CLOSE"
    /\ downIn' = Tail(downIn)

\* a step in which close_downstream calls down_conn.close()
CloseInvoked == upc' = "closing" /\ upc # "closing"

\* C26: however the upstream pump leaves its loop, its finalizer runs: the
\* downstream socket is closed when the pump is over, and close() is called
\* on it only when it was not closed (it is closed after a close frame).
C26_UpstreamExitClosesOnce ==
    [][ /\ upc' = "done" => downClosed'
        /\ CloseInvoked => (~downClosed /\ ~ReceivedClose) ]_vars

C26_Witness ==
    /\ upc = "done" /\ downClosed /\ forced
    /\ hpc = "proxy" /\ raised = {}

\* websocket_handler returned the WebSocket response: proxy() returned
ProxyReturned ==
    /\ handler = "websocket_handler" /\ hpc = "done"
    /\ wsResp.kind = "websocket"

\* C27: proxy() schedules the downstream pump as a task of its own and runs
\* the upstream pump; it returns when the upstream pump, finalizer included,
\* is over, and as soon as it is, whatever the downstream pump is doing.
C27_ProxyAwaitsUpstreamOnly ==
    /\ hpc = "proxy" => (upc # "none" /\ dpc # "none")
    /\ ProxyReturned => upc = "done"
    /\ (hpc = "proxy" /\ upc = "done" /\ "upstream" \notin raised) =>
           ENABLED WsReturn

\* proxy() has returned and the downstream pump is still running
C27_Witness ==
    /\ ProxyReturned
    /\ dpc \in {"scheduled", "wait", "recv", "send"}

\* the upstream pump stands at its receive with a downstream frame to take
UpstreamCanRead ==
    /\ hpc = "proxy" /\ upc \in {"recv", "wait"} /\ downIn # <<>>

\* C28 (as stated): a suspended write never stalls the reads from the other
\* socket: while the write of a frame to the upstream socket is suspended
\* the bridge can receive and enqueue the next downstream frame, and while
\* the write of a frame to the downstream socket is suspended the bridge can
\* read the next upstream frame.
C28_WritesNeverStallReads ==
    /\ (drain = "send" /\ UpstreamCanRead) => ENABLED UpstreamRecv
    /\ (dpc = "send" /\ upIn # <<>>) => ENABLED DownstreamRecv

\* C28 (amended): while the write of a frame to the upstream socket is
\* suspended the bridge can receive and enqueue the next downstream frame;
\* while the write of a frame to the downstream socket is suspended the
\* bridge reads nothing from the upstream socket: the frames wait.
C28_OnlyUpstreamWritesDecoupled ==
    /\ (drain = "send" /\ UpstreamCanRead) => ENABLED UpstreamRecv
    /\ dpc = "send" => ~ENABLED DownstreamRecv

C28_Witness ==
    /\ drain = "send" /\ UpstreamCanRead /\ Len(upstream_buffer) = 1
    /\ dpc = "send" /\ upIn # <<>>

\* a is b with some of its elements left out
RECURSIVE IsSubSeq(_, _)
IsSubSeq(a, b) ==
    IF a = <<>> THEN TRUE
    ELSE IF b = <<>> THEN FALSE
    ELSE IF Head(a) = Head(b) THEN IsSubSeq(Tail(a), Tail(b))
    ELSE IsSubSeq(a, Tail(b))

\* the write each text or binary frame received from upstream calls for
Forwarded == [i \in 1..Len(upRecvd) |->
                 [data |-> upRecvd[i].data,
                  via |-> IF upRecvd[i].type = "TEXT" THEN "send_str"
                          ELSE "send_bytes"]]

\* C29: the text and binary frames are received from the upstream socket in
\* the order the server sent them, and each is written to the downstream
\* socket with its payload unchanged, text by send_str and binary by
\* send_bytes, in that order, none twice; while the downstream side is up
\* none is left out.
C29_UpstreamFramesForwardedInOrder ==
    /\ \A i \in 1..Len(upRecvd) : upRecvd[i].data = i
    /\ IsSubSeq(downWritten, Forwarded)
    /\ (~downClosed /\ ~clientGone) => downWritten = Forwarded

C29_Witness ==
    /\ downWritten = << [data |-> 1, via |-> "send_str"],
                        [data |-> 2, via |-> "send_bytes"] >>
    /\ dpc = "send"

\* C30: from the call of proxy() to the end of what it started, one
\* upstream pump was started, one downstream pump and at most one
\* queue-drain task; the drain task is started by the downstream pump when
\* that pump starts, and by nothing else.
C30_OnePumpEachOneDrain ==
    /\ upc # "none" <=> tasks.upstream = 1
    /\ upc # "none" => tasks.downstream = 1
    /\ tasks.upstream <= 1 /\ tasks.downstream <= 1 /\ tasks.drain <= 1
    /\ tasks.drain = (IF dpc \in {"none", "scheduled"} THEN 0 ELSE 1)
    /\ drain # "none" <=> tasks.drain = 1

C30_Witness ==
    /\ tasks = [upstream |-> 1, downstream |-> 1, drain |-> 1]
    /\ upc = "done" /\ dpc = "done" /\ drain = "done"
    /\ enq # <<>> /\ upRecvd # <<>>

\* the bytes read from upstream that have not been written downstream
Unwritten == SubSeq(readLog, Len(writeLog) + 1, Len(readLog))

\* C31: the relay holds at most one chunk, of at most 8192 bytes, that was
\* read and not yet written: every read is issued with nothing unwritten, a
\* chunk that was read is either empty and ends the loop or is the one
\* being written, and the loop is left by its break exactly on the empty
\* chunk.
C31_OneChunkInFlight ==
    /\ Len(chunk) <= ReadSize
    /\ Unwritten \in {<<>>, chunk}
    /\ wpc = "read" => Unwritten = <<>>
    /\ wpc = "write" => (chunk # <<>> /\ Unwritten = chunk)
    /\ RelayComplete => (chunk = <<>> /\ Unwritten = <<>>)

C31_Witness ==
    /\ wpc = "write"
    /\ Len(writeLog) = 1
    /\ Unwritten = chunk
    /\ Len(chunk) = 1

\* C32: once the drain task of a bridge session has ended, no frame is put
\* on the outbound queue any more.
C32_NoEnqueueAfterDrainEnded ==
    [][(drain = "done" /\ drain' = "done") => enq' = enq]_vars

\* the downstream pump passes a frame to send_str / send_bytes of the
\* downstream socket in this step
DownWriteAttempted == Len(upRecvd') > Len(upRecvd)

\* the drain task passes an item to send_str / send_bytes of the upstream
\* socket in this step: the write is started, or raises
UpWriteAttempted ==
    \/ Len(upWritten') > Len(upWritten)
    \/ drain # "done" /\ drain' = "done" /\ drainResult' = "exception"

\* C33 (as stated): no write is attempted on a closed socket, by the drain
\* task on the upstream socket or by the downstream pump on the downstream
\* socket.
C33_NoWriteOnClosedSocket ==
    [][/\ UpWriteAttempted => ~upClosed
       /\ DownWriteAttempted => ~downClosed]_vars

\* C33 (amended): the drain task attempts a write on the upstream socket
\* only while that socket is open, and discards the item otherwise; the
\* downstream pump attempts the write of every data frame it receives.
C33_DrainWritesOnlyWhileOpen ==
    [][/\ UpWriteAttempted => ~upClosed
       /\ (Len(dropped') > Len(dropped) /\ drain' # "done") => upClosed
       /\ (Len(upRecvd') > Len(upRecvd)) =>
              (dpc' \in {"send", "join", "closing", "done"})]_vars

\* the drain task has found the upstream socket closed and has discarded
\* an item instead of writing it
C33_Witness ==
    /\ dropped # <<>>
    /\ drainResult = "none"
    /\ upClosed
    /\ upWritten = <<>>

\* the coroutine the first thread submitted in the execute() it is in
SubmittedOp(ret) ==
    IF ret = "init" THEN CreateCoro.op
    ELSE IF ret = "enter" THEN NegotiateCoro.op
    ELSE ApiCoro.op

\* C34: every execute() call gets the result of the coroutine that this
\* call put on the work queue, with one thread and with two threads that
\* call execute() of the same worker.
C34_ExecuteReturnsOwnResult ==
    [][/\ (cpc = "execute" /\ cpc' # "execute") =>
              Head(done_queue).of = SubmittedOp(cret)
       /\ (pc2 = "execute" /\ pc2' # "execute") =>
              Head(done_queue).of = OtherCoro.op]_vars

\* C35: a call of execute() on a worker that was started and not told to
\* stop ends: the caller leaves execute(), with a value or an exception,
\* whatever the submitted coroutine does.
C35_ExecuteAlwaysEnds ==
    (cpc = "execute" /\ ~sess.closed) ~> (cpc # "execute")

\* C36: while no execute() call is in progress (and no close() call is
\* running) the done queue of the worker is empty: no result is left for a
\* later execute().
C36_DoneQueueEmptyBetweenCalls ==
    (cpc # "execute" /\ ~InClose) => done_queue = <<>>

\* C37: close() of a Session and of an AsyncSession is idempotent. The
\* call that finds the session open sets closed and has the aiohttp session
\* closed, once; on a closed session no step of the caller other than a new
\* execute() changes the session or the work queue, so a later close() does
\* nothing; closed never goes back to false.
C37_CloseIdempotent ==
    [][/\ sess.closed => sess'.closed
       /\ asess.closed => asess'.closed
       /\ sess'.httpCloses <= 1 /\ asess'.httpCloses <= 1
       /\ (~sess.closed /\ sess'.closed) =>
              (sess.httpCloses = 0 /\ work_queue' = Append(work_queue, CloseCoro))
       /\ (sess'.closed /\ ~InClose') =>
              (sess'.http = "closed" /\ sess'.httpCloses = 1)
       /\ (sess.closed /\ ~InClose /\ cpc' # "execute") =>
              (sess' = sess /\ work_queue' = work_queue)
       /\ asess'.closed => (asess'.http = "closed" /\ asess'.httpCloses = 1)
       /\ asess.closed => asess' = asess]_vars

\* __exit__ has called close() on a Session that close() had been called on
\* inside the block, and __aexit__ has closed the AsyncSession
C37_Witness ==
    /\ cpc = "left" /\ ctx.state = "left"
    /\ nCalls >= 1 /\ wt = "done" /\ done_queue = <<>>
    /\ sess.closed /\ sess.httpCloses = 1
    /\ apc = "left" /\ asess.closed /\ asess.httpCloses = 1

\* C38: __enter__ of a closed Session and __aenter__ of a closed
\* AsyncSession raise AssertionError, put no negotiation on the work queue
\* and leave the session as it was; the block is not entered.
C38_ClosedSessionNotReentered ==
    [][/\ (cpc = "made" /\ sess.closed /\ cpc' # "made") =>
              /\ pending' = "AssertionError" /\ cpc' = "failed"
              /\ sess' = sess /\ ctx' = ctx
              /\ work_queue' = work_queue /\ done_queue' = done_queue
              /\ wt' = wt /\ running' = running
       /\ (apc = "made" /\ asess.closed /\ apc' # "made") =>
              /\ apending' = "AssertionError" /\ apc' = "failed"
              /\ asess' = asess /\ actx' = actx
       /\ (pending' = "AssertionError" /\ pending # pending') => sess.closed
       /\ (apending' = "AssertionError" /\ apending # apending') =>
              asess.closed]_vars

\* both sessions were closed before their block and the entry of both
\* blocks has failed
C38_Witness ==
    /\ cpc = "failed" /\ pending = "AssertionError"
    /\ sess.closed /\ sess.api_version = "none" /\ ctx = NoContext
    /\ apc = "failed" /\ apending = "AssertionError"
    /\ asess.closed /\ asess.api_version = "none" /\ actx = NoContext

\* C39: a negotiation whose probe succeeds returns the smaller of the
\* server's and the client's version, one whose probe times out or fails
\* with a client error returns the client's version, and no negotiation
\* returns a version higher than the client's.
C39_NegotiatedNotAboveClient ==
    nego.state = "returned" =>
        /\ nego.probe.kind = "ok" =>
              /\ nego.value \in {nego.probe.version, nego.client}
              /\ ~VersionLess(nego.probe.version, nego.value)
              /\ ~VersionLess(nego.client, nego.value)
        /\ nego.probe.kind \in {"TimeoutError", "ClientError"} =>
              nego.value = nego.client
        /\ ~VersionLess(nego.client, nego.value)

\* the server reports the client's major number with an older date, and
\* the negotiation has returned the server's version
C39_Witness ==
    /\ nego.state = "returned"
    /\ nego.probe.kind = "ok"
    /\ nego.probe.version[1] = nego.client[1]
    /\ nego.value = nego.probe.version
    /\ nego.value # nego.client

\* C40: whenever the Request holds a cached content, its Content-Length
\* header is the decimal text of the length of that content.
C40_ContentLengthOfCached ==
    rq_content # None =>
        rq_headers = Some(DecimalString(Len(rq_content[1])))

\* a content of seventeen bytes was computed from the data and cached by
\* a read that followed at least two other operations on the request
C40_Witness ==
    /\ rq_last.op = "read" /\ nOps >= 3
    /\ rq_content # None /\ Len(rq_content[1]) = 17
    /\ rq_headers = Some(<<"1", "7">>)

====
